---- MODULE Spec2Model ----
(***************************************************************************)
(* Model of the tt-bots scripts: the OCC option-symbol builders, the order *)
(* fulfillment trackers (wait_for_order_fill, debug_order_status), the     *)
(* SGOV cash-balance script's main, the order payload builders, the        *)
(* TastytradeAPI client, the spot-price readers, the risk-reversal         *)
(* executor's main, the stock DCA scripts, the position planner and the    *)
(* balance poller.  Strings are sequences of one-character strings.  Each  *)
(* part of the repository is a specification of its own (SpecOcc,          *)
(* SpecFill, SpecDebug, SpecDebugTwice, SpecMain, SpecOrder, SpecApi,      *)
(* SpecQuote, SpecExec, SpecDca, SpecPlan); the parts share no state, so a *)
(* specification keeps the variables of the other parts at their idle      *)
(* values.  SpecLoops runs the three polling loops under weak fairness of  *)
(* their steps.  Spec is the union: a run of any one part.                 *)
(***************************************************************************)
EXTENDS Integers, Sequences, FiniteSets, TLC

VARIABLES
    \* --- OCC symbol builders -------------------------------------------
    occ_args,      \* [underlying, expiry, opt_type, strike] of the call
    occ_fn,        \* which builder has run: "none" before the call
    occ_sym,       \* the symbol built (the local sym / the returned string)
    occ_raised,    \* TRUE when build_option_symbol's assert failed
    \* --- wait_for_order_fill -------------------------------------------
    w_pc,          \* "idle" (not called), "loop" (in the while), "done" (returned)
    w_quantity,    \* the quantity argument, in QtyUnit-ths of a share
    w_now,         \* time.time() - start_time, in seconds
    filled_price,  \* the local filled_price
    filled_qty,    \* the local filled_qty
    consecutive_401, \* the local consecutive_401
    w_ret,         \* the returned pair (filled, price)
    w_line,        \* the source line of the return statement taken, 0 before
    w_last,        \* history: the outcome of the latest poll request
    w_hist,        \* history: status codes of the latest 3 responses received
    w_prevFq,      \* history: filled-quantity parsed from the poll before the latest
    w_streak,      \* history: the failure the latest polls ended in, and how
                   \* many polls in a row ended in it (counted up to 3)
    \* --- debug_order_status (executor script, DCA script) ---------------
    d_fn,          \* the definition that runs: "def21", "def439" (executor), "gtc"
    d_pc,          \* "idle", "loop", "done"
    d_now,         \* executor: time.time() - start_time, in seconds
    d_iter,        \* DCA script: iterations of for _ in range(timeout) begun
    last_status,   \* executor: the local last_status ("None" for None)
    seen_fills,    \* executor: debug_order_status.seen_fills
    d_hasattr,     \* executor: the function has its attribute seen_fills
    d_printed,     \* executor: FILL lines printed in this call, per fill-id
    d_last,        \* history: the outcome of the latest poll request
    d_appeared,    \* history: fill-ids the fill lists of this call held
    d_call,        \* history: which call of the process this is (1 or 2)
    \* --- main of the SGOV cash-balance script ----------------------------
    m_pc,          \* the call main is about to make: "idle", "start", ..., "done"
    m_args,        \* args.auto, args.dry_run
    m_clock,       \* today and current_time: market open, which trading day
    m_token,       \* the local token ("none" before login)
    cash_before,   \* the local cash_before, in cents
    sgov_shares_before, \* the local sgov_shares_before, in shares
    sgov_price,    \* the local sgov_price, in cents
    m_action,      \* the local action (<<>> for None)
    m_qty,         \* the local qty
    m_order_id,    \* the local order_id ("None" before place_order)
    m_payload,     \* the order payload posted by place_order
    new_cash,      \* the local new_cash, in cents
    new_position,  \* the local new_position, in shares
    m_verdict,     \* which of the two messages of lines 531-540 was logged
    m_exit,        \* how main ended: "none", "return", "raise"
    m_obtained,    \* history: session tokens login returned
    m_released,    \* history: session tokens logout was completed for
    p_resp,        \* history: the latest positions response
    p_out,         \* history: what get_sgov_position did with it
    m_sent,        \* history: login, order and logout requests main has made,
                   \* and the answer given at the confirmation prompt
    \* --- the order payload builders -------------------------------------
    o_fn,          \* which builder has run: "none" before the call
    o_args,        \* the arguments of the call
    o_payload,     \* the payload built
    \* --- the TastytradeAPI client ---------------------------------------
    a_variant,     \* "planner" or "tqqq": which tastytrade_api.py
    token,         \* self.token (0 for None)
    a_header,      \* self.session.headers["Authorization"] (0 when absent)
    a_issued,      \* history: session tokens the broker has issued
    a_calls,       \* history: calls made on the client
    a_session,     \* history: the token of the latest successful login, 0
                   \* from the next logout on
    a_last,        \* history: the latest call and what it did
    \* --- the spot-price readers -----------------------------------------
    q_fn,          \* which reader has run: "none" before the call
    q_symbol,      \* the symbol asked for
    q_resp,        \* the market-data response
    q_out,         \* what the reader did: raised, or the price returned
    \* --- the executor's main ----------------------------------------------
    x_pc,          \* where main is
    x_token,       \* api.token: NoToken is None
    x_params,      \* params["instrument"], and whether expiry and strikes exist
    x_how,         \* history: how the try block was left
    x_sent,        \* history: login requests, logout() calls, logout requests
    x_resp,        \* history: the broker's latest response
    \* --- the DCA scripts ---------------------------------------------------
    c_fn,          \* which script runs: "day" (interactive) or "gtc"
    c_pc,          \* where the script is
    step,          \* the step counter of the loop
    bought_qty,    \* shares of the buy orders that came back with an id
    current_price, \* the limit price of the next order, in cents
    c_sent,        \* history: requests sent, by kind
    c_last,        \* history: the latest submission and what it returned
    c_hist,        \* history: the first failed step, the steps polled
    \* --- the planner's strike selection -------------------------------------
    s_fn,          \* which function is called
    s_in,          \* its arguments and what the user and the broker supply
    s_out,         \* what it returned
    \* --- wait_for_balance_update ------------------------------------------
    b_pc,          \* where the loop is
    b_now,         \* time.time() - start, in seconds
    b_in,          \* old_balance and expected_change, in cents
    b_last,        \* history: the latest response
    b_ret          \* the value returned: a balance, or None

occVars == <<occ_args, occ_fn, occ_sym, occ_raised>>

fillVars == <<w_pc, w_quantity, w_now, filled_price, filled_qty, consecutive_401,
              w_ret, w_line, w_last, w_hist, w_prevFq, w_streak>>

dbgVars == <<d_fn, d_pc, d_now, d_iter, last_status, seen_fills, d_hasattr,
             d_printed, d_last, d_appeared, d_call>>

mainVars == <<m_pc, m_args, m_clock, m_token, cash_before, sgov_shares_before,
              sgov_price, m_action, m_qty, m_order_id, m_payload, new_cash,
              new_position, m_verdict, m_exit, m_obtained, m_released,
              p_resp, p_out, m_sent>>

\* The state of the account flows and of the API client
orderVars == <<o_fn, o_args, o_payload>>

apiVars == <<a_variant, token, a_header, a_issued, a_calls, a_session, a_last>>

quoteVars == <<q_fn, q_symbol, q_resp, q_out>>

\* The state of the executor's main
execVars == <<x_pc, x_token, x_params, x_how, x_sent, x_resp>>

\* The state of the DCA scripts
dcaVars == <<c_fn, c_pc, step, bought_qty, current_price, c_sent, c_last, c_hist>>

\* The state of the scripts modelled after the account flows
\* The state of the strike selection
planVars == <<s_fn, s_in, s_out>>

\* The state of the balance polling
balVars == <<b_pc, b_now, b_in, b_last, b_ret>>

extVars == <<execVars, dcaVars, planVars, balVars>>

\* The state outside these scripts
baseVars == <<occVars, fillVars, dbgVars, mainVars, orderVars, apiVars, quoteVars>>

exceptExec == <<baseVars, dcaVars, planVars, balVars>>

exceptDca == <<baseVars, execVars, planVars, balVars>>

exceptPlan == <<baseVars, execVars, dcaVars, balVars>>

exceptBal == <<baseVars, execVars, dcaVars, planVars>>

flowVars == <<mainVars, orderVars, apiVars, quoteVars, extVars>>

vars == <<occVars, fillVars, dbgVars, flowVars>>

\* ------------------------------------------------------------------------
\* Values shared by the trackers
\* ------------------------------------------------------------------------
\* Python None / a decimal string / a string float() rejects / a float.
\* Prices are in cents.
NonePrice == [kind |-> "none", val |-> 0]

StrPrice(c) == [kind |-> "str", val |-> c]

BadStrPrice == [kind |-> "badstr", val |-> 0]

FloatPrice(c) == [kind |-> "float", val |-> c]

\* The poll outcome recorded before any poll was made
NoPoll ==
    [kind |-> "none", code |-> 0, defect |-> "none", status |-> "none",
     fq |-> 0, price |-> NonePrice]

\* ------------------------------------------------------------------------
\* Idle values: a part of the repository that a specification does not run
\* ------------------------------------------------------------------------
OccIdle ==
    /\ occ_args = [underlying |-> <<"T">>, expiry |-> <<>>, opt_type |-> "C", strike |-> 0]
    /\ occ_fn = "idle"
    /\ occ_sym = <<>>
    /\ occ_raised = FALSE

FillIdle ==
    /\ w_pc = "idle"
    /\ w_quantity = 0
    /\ w_now = 0
    /\ filled_price = NonePrice
    /\ filled_qty = 0
    /\ consecutive_401 = 0
    /\ w_ret = [ok |-> FALSE, price |-> NonePrice]
    /\ w_line = 0
    /\ w_last = NoPoll
    /\ w_hist = <<>>
    /\ w_prevFq = -1
    /\ w_streak = [fail |-> <<"none", 0>>, n |-> 0]

\* The fill-ids of the model
FillIds == {"f1", "f2"}

\* The poll outcome recorded before any poll was made
NoDebugPoll == [kind |-> "none", status |-> "None", fills |-> <<>>]

DebugIdle ==
    /\ d_fn = "none"
    /\ d_pc = "idle"
    /\ d_now = 0
    /\ d_iter = 0
    /\ last_status = "None"
    /\ seen_fills = {}
    /\ d_hasattr = FALSE
    /\ d_printed = [f \in FillIds |-> 0]
    /\ d_last = NoDebugPoll
    /\ d_appeared = [f \in FillIds |-> 0]
    /\ d_call = 0

\* The order payload before place_order has built one
NoPayload == [effect |-> "none", action |-> "none", quantity |-> 0]

\* The positions response recorded before any was received
NoPositions == [kind |-> "none", code |-> 0, items |-> <<>>]

\* The outcome recorded before get_sgov_position was called
NoPositionOut == [raised |-> FALSE, ret |-> 0, warned |-> FALSE]

MainIdle ==
    /\ m_pc = "idle"
    /\ m_args = [auto |-> FALSE, dry_run |-> FALSE]
    /\ m_clock = [open |-> FALSE, day |-> "other"]
    /\ m_token = "none"
    /\ cash_before = 0
    /\ sgov_shares_before = 0
    /\ sgov_price = 0
    /\ m_action = <<>>
    /\ m_qty = 0
    /\ m_order_id = "None"
    /\ m_payload = NoPayload
    /\ new_cash = 0
    /\ new_position = 0
    /\ m_verdict = "none"
    /\ m_exit = "none"
    /\ m_obtained = {}
    /\ m_released = {}
    /\ p_resp = NoPositions
    /\ p_out = NoPositionOut
    /\ m_sent = [logins |-> 0, orders |-> 0, logouts |-> 0, answer |-> "none"]

\* The arguments recorded while no builder is called
NoOrderArgs ==
    [action |-> <<>>, side |-> "none", symbol |-> <<>>, expiry |-> <<>>,
     strike |-> 0, quantity |-> 0, price |-> 0]

OrderIdle ==
    /\ o_fn = "idle"
    /\ o_args = NoOrderArgs
    /\ o_payload = NoPayload

ApiIdle ==
    /\ a_variant = "idle"
    /\ token = 0
    /\ a_header = 0
    /\ a_issued = 0
    /\ a_calls = 0
    /\ a_session = 0
    /\ a_last = [op |-> "none", raised |-> FALSE, sent |-> FALSE, auth |-> 0,
                 held |-> 0, ok |-> FALSE, failed |-> FALSE]

QuoteIdle ==
    /\ q_fn = "idle"
    /\ q_symbol = "none"
    /\ q_resp = [kind |-> "none", code |-> 0, json |-> FALSE, items |-> <<>>]
    /\ q_out = [raised |-> FALSE, ret |-> 0]

\* The executor's main is not running
ExecIdle ==
    /\ x_pc = "idle"
    /\ x_token = 0
    /\ x_params = [instrument |-> "none", has_plan |-> FALSE]
    /\ x_how = "none"
    /\ x_sent = [logins |-> 0, calls |-> 0, logouts |-> 0, orders |-> 0]
    /\ x_resp = [kind |-> "none", code |-> 0]

\* No submission made
NoSubmission == [op |-> "none", ok |-> FALSE, qty |-> 0, order_id |-> "none"]

\* No DCA script is running
DcaIdle ==
    /\ c_fn = "none"
    /\ c_pc = "idle"
    /\ step = 0
    /\ bought_qty = 0
    /\ current_price = 0
    /\ c_sent = [buys |-> 0, accepted |-> 0, sells |-> 0, polls |-> 0, logouts |-> 0]
    /\ c_last = NoSubmission
    /\ c_hist = [failed_step |-> 0, polled |-> {}, closed |-> FALSE,
                 quit |-> FALSE, sent_at_end |-> 0]

\* No strike selection is running
PlanIdle ==
    /\ s_fn = "idle"
    /\ s_in = [kind |-> "none"]
    /\ s_out = [called |-> FALSE]

\* return None
NoBalance == [kind |-> "None", val |-> 0]

\* wait_for_balance_update is not running
BalIdle ==
    /\ b_pc = "idle"
    /\ b_now = 0
    /\ b_in = [old_balance |-> 0, expected_change |-> 0]
    /\ b_last = [kind |-> "none", code |-> 0, body |-> "none", cash |-> 0]
    /\ b_ret = NoBalance

ExtIdle == ExecIdle /\ DcaIdle /\ PlanIdle /\ BalIdle

FlowIdle ==
    /\ ExtIdle
    /\ MainIdle
    /\ OrderIdle
    /\ ApiIdle
    /\ QuoteIdle

\* ------------------------------------------------------------------------
\* Python string helpers
\* ------------------------------------------------------------------------
Min(a, b) == IF a < b THEN a ELSE b

\* s[:n] for n >= 0
Take(s, n) == SubSeq(s, 1, Min(n, Len(s)))

\* s[n:] for n >= 0
Drop(s, n) == SubSeq(s, n + 1, Len(s))

RECURSIVE Spaces(_)
Spaces(n) == IF n <= 0 THEN <<>> ELSE <<" ">> \o Spaces(n - 1)

RECURSIVE Zeros(_)
Zeros(n) == IF n <= 0 THEN <<>> ELSE <<"0">> \o Zeros(n - 1)

\* str.upper() on the letters the model uses
UpperChar(c) ==
    CASE c = "t" -> "T"
      [] c = "q" -> "Q"
      [] c = "c" -> "C"
      [] c = "p" -> "P"
      [] c = "b" -> "B"
      [] c = "u" -> "U"
      [] c = "y" -> "Y"
      [] c = "s" -> "S"
      [] c = "e" -> "E"
      [] c = "l" -> "L"
      [] OTHER -> c

Upper(s) == [i \in 1..Len(s) |-> UpperChar(s[i])]

\* str.ljust(w): pad on the right with spaces, never cut
LJust(s, w) == s \o Spaces(w - Len(s))

\* str.replace("-", "")
RemoveDashes(s) == SelectSeq(s, LAMBDA c : c # "-")

DigitChar(d) ==
    CASE d = 0 -> "0" [] d = 1 -> "1" [] d = 2 -> "2" [] d = 3 -> "3"
      [] d = 4 -> "4" [] d = 5 -> "5" [] d = 6 -> "6" [] d = 7 -> "7"
      [] d = 8 -> "8" [] OTHER -> "9"

\* str(n) for n >= 0
RECURSIVE DigitsOf(_)
DigitsOf(n) ==
    IF n < 10 THEN <<DigitChar(n)>>
    ELSE DigitsOf(n \div 10) \o <<DigitChar(n % 10)>>

\* f"{n:08d}" for n >= 0: zero-padded to at least w digits
ZeroPad(n, w) == Zeros(w - Len(DigitsOf(n))) \o DigitsOf(n)

\* ------------------------------------------------------------------------
\* OCC symbol builders
\* ------------------------------------------------------------------------
MaxRootLen == 7

RootAlphabet == {"T", "q"}

RECURSIVE StringsOfLen(_)
StringsOfLen(n) ==
    IF n = 0 THEN {<<>>}
    ELSE {s \o <<c>> : s \in StringsOfLen(n - 1), c \in RootAlphabet}

Roots == UNION {StringsOfLen(n) : n \in 1..MaxRootLen}

ExpiryDates ==
    { <<"2","0","2","5","-","1","2","-","2","6">>,
      <<"2","0","2","6","-","0","1","-","1","6">> }

OptTypes == {"C", "P", "c"}

\* Strikes in cents: 0.50, 2.01, 27.00, 280.00
Strikes == {50, 201, 2700, 28000}

\* The strikes (in cents) of the model whose double product strike * 1000
\* lands just below the integer: 2.01 * 1000 = 2009.9999999999998.
FloatShortfall == {201}

\* int(strike * 1000): the IEEE-754 double product, truncated toward zero.
IntStrikeTimes1000(strike) ==
    IF strike \in FloatShortfall THEN strike * 10 - 1 ELSE strike * 10

\* position_planner.build_occ (and the same text in tt-tqqq-risk-reversal-0.py)
build_occ(underlying, expiry, opt_type, strike) ==
    LET exp == Drop(RemoveDashes(expiry), 2)
        strike_pad == ZeroPad(IntStrikeTimes1000(strike), 8)
        root == Upper(underlying)
        padded == Take(LJust(root, 6), 6)
    IN  padded \o exp \o <<UpperChar(opt_type)>> \o strike_pad

\* tt-test-occ-symbol.build_option_symbol, up to its assert: the root is cut
\* to 6 and padded with a slice of the two-character literal "  "
build_option_symbol(underlying, expiry, opt_type, strike) ==
    LET exp == Drop(RemoveDashes(expiry), 2)
        strike_pad == ZeroPad(IntStrikeTimes1000(strike), 8)
        root0 == Upper(underlying)
        root == IF Len(root0) > 6 THEN Take(root0, 6) ELSE root0
        padded == root \o Take(<<" ", " ">>, 6 - Len(root))
    IN  padded \o exp \o <<UpperChar(opt_type)>> \o strike_pad

\* tt-tqqq-risk-reversal-0-KEEPER.build_occ
build_occ_keeper(underlying, expiry, opt_type, strike) ==
    LET exp == Drop(RemoveDashes(expiry), 2)
        strike_pad == ZeroPad(IntStrikeTimes1000(strike), 8)
        root == Take(Upper(underlying), 6)
        padded == root \o Take(<<" ", " ">>, 6 - Len(root))
    IN  padded \o exp \o <<UpperChar(opt_type)>> \o strike_pad

InitOcc ==
    /\ occ_args \in [underlying : Roots, expiry : ExpiryDates,
                     opt_type : OptTypes, strike : Strikes]
    /\ occ_fn = "none"
    /\ occ_sym = <<>>
    /\ occ_raised = FALSE
    /\ FillIdle
    /\ DebugIdle
    /\ FlowIdle

CallBuildOcc ==
    /\ occ_fn = "none"
    /\ occ_fn' = "build_occ"
    /\ occ_sym' = build_occ(occ_args.underlying, occ_args.expiry,
                            occ_args.opt_type, occ_args.strike)
    /\ UNCHANGED <<occ_args, occ_raised>>
    /\ UNCHANGED <<fillVars, dbgVars, flowVars>>

CallBuildOptionSymbol ==
    /\ occ_fn = "none"
    /\ occ_fn' = "build_option_symbol"
    /\ occ_sym' = build_option_symbol(occ_args.underlying, occ_args.expiry,
                                      occ_args.opt_type, occ_args.strike)
    /\ occ_raised' = (Len(occ_sym') # 21)
    /\ UNCHANGED occ_args
    /\ UNCHANGED <<fillVars, dbgVars, flowVars>>

CallBuildOccKeeper ==
    /\ occ_fn = "none"
    /\ occ_fn' = "build_occ_keeper"
    /\ occ_sym' = build_occ_keeper(occ_args.underlying, occ_args.expiry,
                                   occ_args.opt_type, occ_args.strike)
    /\ UNCHANGED <<occ_args, occ_raised>>
    /\ UNCHANGED <<fillVars, dbgVars, flowVars>>

NextOcc ==
    \/ CallBuildOcc
    \/ CallBuildOptionSymbol
    \/ CallBuildOccKeeper

SpecOcc == InitOcc /\ [][NextOcc]_vars

\* ------------------------------------------------------------------------
\* The OCC layout the specification describes, stated on its own terms
\* ------------------------------------------------------------------------
\* root truncated to its first 6 characters, then left-justified to width 6
OccRootField(underlying) ==
    LET cut == [i \in 1..Min(Len(underlying), 6) |-> UpperChar(underlying[i])]
    IN  [i \in 1..6 |-> IF i <= Len(cut) THEN cut[i] ELSE " "]

\* YYMMDD of a YYYY-MM-DD date
OccDateField(expiry) ==
    <<expiry[3], expiry[4], expiry[6], expiry[7], expiry[9], expiry[10]>>

Pow10(k) == CASE k = 0 -> 1 [] k = 1 -> 10 [] k = 2 -> 100 [] k = 3 -> 1000
              [] k = 4 -> 10000 [] k = 5 -> 100000 [] k = 6 -> 1000000
              [] OTHER -> 10000000

\* n as exactly 8 decimal digits
EightDigits(n) == [i \in 1..8 |-> DigitChar((n \div Pow10(8 - i)) % 10)]

\* strike (in cents) times 1000, in thousandths of a dollar: the exact product
ExactStrikeTimes1000(strike) == strike * 10

OccLayout(a, strikeField) ==
    OccRootField(a.underlying) \o OccDateField(a.expiry)
        \o <<UpperChar(a.opt_type)>> \o EightDigits(strikeField)

ExampleArgs ==
    [underlying |-> <<"T">>, expiry |-> <<"2","0","2","5","-","1","2","-","2","6">>,
     opt_type |-> "C", strike |-> 2700]

ExampleSymbol ==
    <<"T"," "," "," "," "," ","2","5","1","2","2","6","C",
      "0","0","0","2","7","0","0","0">>

\* C1: build_occ returns exactly root(6, upper-cased, cut, left-justified) +
\* YYMMDD + type + strike*1000 as 8 zero-padded digits; length 21 for roots of
\* length 1..6; a longer root is cut to 6; ('T', 2025-12-26, 'C', 27) gives
\* 'T     251226C00027000'.  The strike field is the exact product here.
C1_BuildOccExact ==
    occ_fn = "build_occ" =>
        /\ occ_sym = OccLayout(occ_args, ExactStrikeTimes1000(occ_args.strike))
        /\ Len(occ_args.underlying) \in 1..6 => Len(occ_sym) = 21
        /\ Len(occ_args.underlying) > 6 =>
               Take(occ_sym, 6) = Take(Upper(occ_args.underlying), 6)
        /\ occ_args = ExampleArgs => occ_sym = ExampleSymbol

\* Everything of C1 but the value of the strike digits: the layout with the
\* strike field as int(strike * 1000) delivers it.
BuildOccLayoutHolds ==
    occ_fn = "build_occ" =>
        /\ occ_sym = OccLayout(occ_args, IntStrikeTimes1000(occ_args.strike))
        /\ Len(occ_sym) = 21
        /\ occ_args = ExampleArgs => occ_sym = ExampleSymbol

\* C2: the builders that pad with the two-character literal give a symbol of
\* length 21 for every root of length 1..6, so the assert never fails.
C2_TwoSpaceBuildersLength21 ==
    (occ_fn \in {"build_option_symbol", "build_occ_keeper"}
        /\ Len(occ_args.underlying) \in 1..6) =>
        (Len(occ_sym) = 21 /\ ~occ_raised)

\* ------------------------------------------------------------------------
\* wait_for_order_fill (tt-tut5CashBalanceAfterSGOV.py)
\* ------------------------------------------------------------------------
\* Quantities are counted in units of 0.0005 share: QtyUnit units a share.
QtyUnit == 2000

\* The tolerance 0.001 of line 335, in the same units
Tolerance == 2

\* consecutive_401 >= 3
Max401 == 3

\* The timeout argument (60 by default), in seconds
PollTimeout == 5

\* The longest a request takes, in seconds (requests time out)
MaxLatency == 1

Abs(x) == IF x < 0 THEN -x ELSE x

\* The quantity argument: 1 share, 45 shares
Quantities == {QtyUnit, 45 * QtyUnit}

\* filled-quantity values a response may carry for a requested quantity q:
\* nothing, short by the tolerance, short by less, exact, above by the tolerance
FillQtys(q) == {0, q - Tolerance, q - 1, q, q + Tolerance}

Statuses == {"Live", "Filled", "Rejected", "Canceled", "Cancelled"}

\* legs[0]["filled-price"]: absent, a decimal string, a string that is no number
RawPrices == {NonePrice, StrPrice(10050), BadStrPrice}

\* What one poll request can bring: an exception of the request, a response
\* with a status code and, for 200, a body.  defect names the place where the
\* parse of the body raises: "json" (resp.json() or the gets of line 327),
\* "qty" (float() of filled-quantity, line 329), "legs" (legs is empty, line
\* 330); "none" when these succeed.
Responses(q) ==
    {[kind |-> "exc", code |-> 0, defect |-> "none", status |-> "none",
      fq |-> 0, price |-> NonePrice]}
    \cup {[kind |-> "http", code |-> c, defect |-> "none", status |-> "none",
           fq |-> 0, price |-> NonePrice] : c \in {401, 500}}
    \cup {[kind |-> "http", code |-> 200, defect |-> d, status |-> "none",
           fq |-> 0, price |-> NonePrice] : d \in {"json", "qty"}}
    \cup {[kind |-> "http", code |-> 200, defect |-> "legs", status |-> st,
           fq |-> f, price |-> NonePrice] : st \in Statuses, f \in FillQtys(q)}
    \cup {[kind |-> "http", code |-> 200, defect |-> "none", status |-> st,
           fq |-> f, price |-> pr] :
              st \in Statuses, f \in FillQtys(q), pr \in RawPrices}

\* Faulty variant: the count is not reset by another response
Count401_NoReset(c, code) == IF code = 401 THEN c + 1 ELSE c

\* lines 310-319: the count of consecutive 401 responses
Count401(c, code) == IF code = 401 THEN c + 1 ELSE 0

\* Faulty variant: the quantity is added up over the polls
TrackFilledQty_Sum(old, fq) == old + fq

\* line 329: filled_qty = float(order.get("filled-quantity", 0))
TrackFilledQty(old, fq) == fq

\* Faulty variant: the quantity is not compared
IsFilled_StatusOnly(status, fqty, quantity) == status = "Filled"

\* Faulty variant: the comparison with the tolerance is inverted
IsFilled_Inverted(status, fqty, quantity) ==
    status = "Filled" /\ Abs(fqty - quantity) > Tolerance

\* line 335: status == "Filled" and abs(filled_qty - quantity) < 0.001
IsFilled(status, fqty, quantity) ==
    status = "Filled" /\ Abs(fqty - quantity) < Tolerance

\* line 343: status in ["Rejected", "Canceled"]
IsRejectedOrCanceled(status) == status \in {"Rejected", "Canceled"}

\* line 336: if filled_price
Truthy(p) == p.kind # "none"

\* One iteration of the while loop after its deadline check, for the poll
\* outcome r: the new locals, the line of the return taken (0: none) with the
\* value returned, and the seconds slept.
PollIteration(quantity, c401, fqty, fprice, r) ==
    LET stay(c, q, p, secs) ==
            [c401 |-> c, fqty |-> q, fprice |-> p, line |-> 0,
             ret |-> [ok |-> FALSE, price |-> NonePrice], sleep |-> secs]
        leave(c, q, p, ln, ok, price) ==
            [c401 |-> c, fqty |-> q, fprice |-> p, line |-> ln,
             ret |-> [ok |-> ok, price |-> price], sleep |-> 0]
    IN
    IF r.kind = "exc" THEN stay(c401, fqty, fprice, 1)
    ELSE
    LET c == Count401(c401, r.code) IN
    IF r.code = 401 THEN
        IF c >= Max401 THEN leave(c, fqty, fprice, 315, FALSE, NonePrice)
        ELSE stay(c, fqty, fprice, 2)
    ELSE IF r.code # 200 THEN stay(c, fqty, fprice, 2)
    ELSE IF r.defect \in {"json", "qty"} THEN stay(c, fqty, fprice, 2)
    ELSE
    LET q1 == TrackFilledQty(fqty, r.fq) IN
    IF r.defect = "legs" THEN stay(c, q1, fprice, 2)
    ELSE
    LET p1 == r.price IN
    IF IsFilled(r.status, q1, quantity) THEN
        IF Truthy(p1) THEN
            IF p1.kind = "badstr" THEN stay(c, q1, p1, 2)
            ELSE leave(c, q1, FloatPrice(p1.val), 339, TRUE, FloatPrice(p1.val))
        ELSE leave(c, q1, p1, 342, TRUE, NonePrice)
    ELSE IF IsRejectedOrCanceled(r.status) THEN
        leave(c, q1, p1, 345, FALSE, NonePrice)
    ELSE stay(c, q1, p1, 2)

\* The filled-quantity a poll outcome let the tracker parse, -1 when none
ParsedQty(r) ==
    IF r.kind = "http" /\ r.code = 200 /\ r.defect \in {"none", "legs"}
    THEN r.fq ELSE -1

Last3(h) == IF Len(h) > 3 THEN SubSeq(h, Len(h) - 2, Len(h)) ELSE h

\* The transient failure a poll ended in: the request raised (lines 305-308)
\* or the response had a status other than 200 (lines 310-324); none
\* otherwise
PollFailure(r) ==
    IF r.kind = "exc" THEN <<"exception", 0>>
    ELSE IF r.code # 200 THEN <<"status", r.code>>
    ELSE <<"none", 0>>

NoStreak == [fail |-> <<"none", 0>>, n |-> 0]

\* The run of identical failures after one more poll
StreakAfter(streak, r) ==
    IF PollFailure(r) = <<"none", 0>> THEN NoStreak
    ELSE IF PollFailure(r) = streak.fail
         THEN [fail |-> streak.fail, n |-> Min(streak.n + 1, 3)]
         ELSE [fail |-> PollFailure(r), n |-> 1]

\* lines 297-300: the locals before the loop
InitFill ==
    /\ OccIdle
    /\ DebugIdle
    /\ FlowIdle
    /\ w_pc = "loop"
    /\ w_quantity \in Quantities
    /\ w_now = 0
    /\ filled_price = NonePrice
    /\ filled_qty = 0
    /\ consecutive_401 = 0
    /\ w_ret = [ok |-> FALSE, price |-> NonePrice]
    /\ w_line = 0
    /\ w_last = NoPoll
    /\ w_hist = <<>>
    /\ w_prevFq = -1
    /\ w_streak = NoStreak

\* lines 302-350: the deadline check passes and one poll is made.  The
\* history variables are written when recorded is TRUE.
PollStep(recorded) ==
    /\ w_pc = "loop"
    /\ w_now < PollTimeout
    /\ \E lat \in 0..MaxLatency, r \in Responses(w_quantity) :
        LET o == PollIteration(w_quantity, consecutive_401, filled_qty, filled_price, r)
        IN  /\ w_last' = IF recorded THEN r ELSE w_last
            /\ consecutive_401' = o.c401
            /\ filled_qty' = o.fqty
            /\ filled_price' = o.fprice
            /\ w_line' = o.line
            /\ w_pc' = IF o.line = 0 THEN "loop" ELSE "done"
            /\ w_ret' = o.ret
            /\ w_now' = w_now + lat + o.sleep
            /\ w_hist' = IF recorded /\ r.kind = "http"
                         THEN Last3(Append(w_hist, r.code))
                         ELSE w_hist
            /\ w_prevFq' = IF recorded THEN ParsedQty(w_last) ELSE w_prevFq
            /\ w_streak' = IF recorded THEN StreakAfter(w_streak, r) ELSE w_streak
    /\ UNCHANGED w_quantity
    /\ UNCHANGED <<occVars, dbgVars, flowVars>>

Poll == PollStep(TRUE)

\* lines 302, 352-353: the deadline check fails
TimeoutExit ==
    /\ w_pc = "loop"
    /\ w_now >= PollTimeout
    /\ w_pc' = "done"
    /\ w_line' = 353
    /\ w_ret' = [ok |-> FALSE, price |-> NonePrice]
    /\ UNCHANGED <<w_quantity, w_now, filled_price, filled_qty, consecutive_401,
                   w_last, w_hist, w_prevFq, w_streak>>
    /\ UNCHANGED <<occVars, dbgVars, flowVars>>

NextFill ==
    \/ Poll
    \/ TimeoutExit

SpecFill == InitFill /\ [][NextFill]_vars

\* ------------------------------------------------------------------------
\* Claims about wait_for_order_fill
\* ------------------------------------------------------------------------
\* The latest poll brought a 200 response whose body parsed: an order with a
\* numeric filled-quantity and a first leg
LastParsed == w_last.kind = "http" /\ w_last.code = 200 /\ w_last.defect = "none"

\* The number of 401s that end a history of status codes
RECURSIVE Trailing401(_)
Trailing401(h) ==
    IF Len(h) = 0 \/ h[Len(h)] # 401 THEN 0
    ELSE 1 + Trailing401(SubSeq(h, 1, Len(h) - 1))

\* C3: after any polls that left the tracker polling, a response with status
\* Filled and filled-quantity equal to the requested quantity (its
\* filled-price absent or a decimal string) makes the tracker return filled
\* at that response; having returned, it polls no more.
C3_FilledReportedAtOnce ==
    (LastParsed /\ w_last.status = "Filled" /\ w_last.fq = w_quantity
        /\ w_last.price.kind # "badstr") =>
        /\ w_pc = "done"
        /\ w_ret.ok
        /\ w_line \in {339, 342}
        /\ ~ENABLED Poll

\* C3 witness: two polls that did not end the tracking, then the fill
C3_Witness ==
    /\ w_pc = "done" /\ w_ret.ok
    /\ w_last.status = "Filled" /\ w_last.fq = w_quantity
    /\ Len(w_hist) = 3 /\ w_prevFq = 0

C5_RejectedCancelledStop ==
    (LastParsed /\ w_last.status \in {"Rejected", "Cancelled"}) =>
        (w_pc = "done" /\ ~w_ret.ok)

\* C7: the tracker aborts (line 315) exactly when the latest three responses
\* are 401s, returning not-filled without reaching the deadline exit; the
\* count is the number of 401 responses since the latest other response.
C7_AbortAtThird401 ==
    /\ w_hist = <<401, 401, 401>> =>
          (w_pc = "done" /\ w_line = 315 /\ ~w_ret.ok /\ w_ret.price = NonePrice)
    /\ w_line = 315 => w_hist = <<401, 401, 401>>
    /\ consecutive_401 = Trailing401(w_hist)

\* C7 witness: the abort at the third 401, before the timeout has elapsed
C7_Witness == w_line = 315 /\ w_now < PollTimeout

\* C8: at the deadline exit the result carries the fill price accumulated.
C8_TimeoutReportsPartialFill ==
    w_line = 353 => (filled_price # NonePrice => w_ret.price # NonePrice)

\* C10: after every poll the tracked filled quantity is the filled-quantity of
\* the latest response it was parsed from, never a sum over polls.
C10_FilledQtyIsLatest ==
    /\ ParsedQty(w_last) >= 0 => filled_qty = w_last.fq
    /\ (w_last.kind # "none" /\ ParsedQty(w_last) < 0 /\ w_prevFq >= 0) =>
           filled_qty = w_prevFq

\* C10 witness: the same filled quantity in two consecutive polls
C10_Witness ==
    /\ w_prevFq > 0 /\ ParsedQty(w_last) = w_prevFq
    /\ filled_qty = w_prevFq

\* C19: after three polls in a row that ended in the same transient failure,
\* whatever it is (three responses with the same status other than 200, three
\* request exceptions), the tracker has stopped polling with a not-filled
\* result.
C19_AbortAfterThreeFailures ==
    w_streak.n >= 3 => (w_pc = "done" /\ ~w_ret.ok)

\* What the tracker returns for an order the broker reports Rejected
RejectedResult ==
    PollIteration(QtyUnit, 0, 0, NonePrice,
                  [kind |-> "http", code |-> 200, defect |-> "none",
                   status |-> "Rejected", fq |-> 0, price |-> NonePrice]).ret

\* C20: the value returned tells an order reported Rejected or Canceled from
\* an unknown outcome: a return at the deadline (line 353) or after repeated
\* 401s (line 315) differs from the value returned for a rejected order.
C20_ResultTellsRejectedFromUnknown ==
    (w_pc = "done" /\ w_line \in {315, 353}) => w_ret # RejectedResult

\* ------------------------------------------------------------------------
\* debug_order_status: the two definitions of the executor script
\* (tt-tqqq-risk-reversal-1.py, lines 21 and 439; the second is the one the
\* script calls) and the one of testOfficialSDK-stock-gtc.py
\* ------------------------------------------------------------------------
\* The timeout argument of the executor's tracker (30 by default), in seconds
DebugTimeout == 3

\* The timeout argument of the DCA script's tracker: the polls it makes (10)
GtcTimeout == 3

\* The longest fill list of a response
MaxFills == 2

DStatuses == {"Live", "Filled", "Rejected", "Cancelled", "Expired"}

\* A fill of a response: its fill-id ("" when it has none) and whether its
\* filled-at can be sliced (a null filled-at raises at line 472)
FillItems ==
    {[id |-> "f1", ok |-> TRUE], [id |-> "f2", ok |-> TRUE],
     [id |-> "", ok |-> TRUE], [id |-> "f2", ok |-> FALSE]}

RECURSIVE FillLists(_)
FillLists(n) ==
    IF n = 0 THEN {<<>>}
    ELSE FillLists(n - 1)
         \cup {l \o <<f>> : l \in {x \in FillLists(n - 1) : Len(x) = n - 1},
                            f \in FillItems}

\* What one poll of the executor's tracker can bring: an exception (the
\* request, resp.json()), or a body with a status and a fill list
DebugResponses ==
    {[kind |-> "error", status |-> "None", fills |-> <<>>]}
    \cup {[kind |-> "ok", status |-> st, fills |-> l] :
              st \in DStatuses, l \in FillLists(MaxFills)}

\* The DCA script's tracker reads the status alone
GtcResponses ==
    {[kind |-> "error", status |-> "None", fills |-> <<>>]}
    \cup {[kind |-> "ok", status |-> st, fills |-> <<>>] : st \in DStatuses}

\* Faulty variant: a fill is printed whether seen or not
IsNewFill_NoDedupe(fill_id, seen) == fill_id # ""

\* lines 53, 469: fill_id and fill_id not in debug_order_status.seen_fills
IsNewFill(fill_id, seen) == fill_id # "" /\ fill_id \notin seen

\* lines 51-58, 465-474: the for loop over the fills, until it ends or raises
RECURSIVE PrintFills(_, _, _)
PrintFills(fills, seen, printed) ==
    IF fills = <<>> THEN [seen |-> seen, printed |-> printed, raised |-> FALSE]
    ELSE
    LET fill == Head(fills) IN
    IF IsNewFill(fill.id, seen) THEN
        IF ~fill.ok THEN [seen |-> seen, printed |-> printed, raised |-> TRUE]
        ELSE PrintFills(Tail(fills), seen \cup {fill.id},
                        [printed EXCEPT ![fill.id] = @ + 1])
    ELSE PrintFills(Tail(fills), seen, printed)

\* lines 61, 477: the exit condition of the executor's trackers
IsTerminalExecutor(status) ==
    status \in {"Filled", "Rejected", "Cancelled", "Expired"}

\* testOfficialSDK-stock-gtc.py line 92
IsTerminalGtc(status) == status \in {"Filled", "Cancelled", "Rejected"}

\* One iteration of the executor's while loop for the poll outcome r
DebugIteration(lastst, seen, hasattr, printed, r) ==
    IF r.kind = "error" THEN
        [last_status |-> lastst, seen |-> seen, hasattr |-> hasattr,
         printed |-> printed, returned |-> FALSE]
    ELSE
    LET pf == PrintFills(r.fills, seen, printed) IN
        [last_status |-> r.status, seen |-> pf.seen,
         hasattr |-> hasattr \/ r.fills # <<>>,
         printed |-> pf.printed,
         returned |-> ~pf.raised /\ IsTerminalExecutor(r.status)]

\* The fill-ids of a fill list
IdsOf(fills) == {fills[i].id : i \in 1..Len(fills)} \ {""}

WellFormed(fills) == \A i \in 1..Len(fills) : fills[i].ok

\* The call the script makes: the locals before the loop.  The definition of
\* line 21 creates the attribute seen_fills before the loop, the one of line
\* 439 inside the loop over the fills.
InitDebug ==
    /\ OccIdle
    /\ FillIdle
    /\ FlowIdle
    /\ d_fn \in {"def21", "def439", "gtc"}
    /\ d_pc = "loop"
    /\ d_now = 0
    /\ d_iter = 0
    /\ last_status = "None"
    /\ seen_fills = {}
    /\ d_hasattr = (d_fn = "def21")
    /\ d_printed = [f \in FillIds |-> 0]
    /\ d_last = NoDebugPoll
    /\ d_appeared = [f \in FillIds |-> 0]
    /\ d_call = 1

\* executor, lines 36-72 / 450-488: the deadline check passes, one poll.
\* recorded: whether the history variables d_last, d_printed and d_appeared
\* follow the poll
DebugStep(recorded) ==
    /\ d_fn \in {"def21", "def439"}
    /\ d_pc = "loop"
    /\ d_now < DebugTimeout
    /\ \E lat \in 0..MaxLatency, r \in DebugResponses :
        LET o == DebugIteration(last_status, seen_fills, d_hasattr, d_printed, r)
        IN  /\ d_last' = IF recorded THEN r ELSE d_last
            /\ last_status' = o.last_status
            /\ seen_fills' = o.seen
            /\ d_hasattr' = o.hasattr
            /\ d_printed' = IF recorded THEN o.printed ELSE d_printed
            /\ d_pc' = IF o.returned THEN "done" ELSE "loop"
            /\ d_now' = IF o.returned THEN d_now + lat ELSE d_now + lat + 2
            /\ d_appeared' =
                 IF recorded /\ r.kind = "ok" /\ WellFormed(r.fills)
                 THEN [f \in FillIds |->
                          IF f \in IdsOf(r.fills) THEN Min(d_appeared[f] + 1, 2)
                          ELSE d_appeared[f]]
                 ELSE d_appeared
    /\ UNCHANGED <<d_fn, d_iter, d_call>>
    /\ UNCHANGED <<occVars, fillVars, flowVars>>

\* The poll with its history
DebugPoll == DebugStep(TRUE)

\* executor, lines 36, 74 / 450, 490: the deadline check fails
DebugTimeoutExit ==
    /\ d_fn \in {"def21", "def439"}
    /\ d_pc = "loop"
    /\ d_now >= DebugTimeout
    /\ d_pc' = "done"
    /\ UNCHANGED <<d_fn, d_now, d_iter, last_status, seen_fills, d_hasattr,
                   d_printed, d_last, d_appeared, d_call>>
    /\ UNCHANGED <<occVars, fillVars, flowVars>>

\* DCA script, lines 86-96: one iteration of for _ in range(timeout)
GtcPoll ==
    /\ d_fn = "gtc"
    /\ d_pc = "loop"
    /\ d_iter < GtcTimeout
    /\ \E r \in GtcResponses :
        /\ d_last' = r
        /\ d_pc' = IF r.kind = "ok" /\ IsTerminalGtc(r.status) THEN "done" ELSE "loop"
    /\ d_iter' = d_iter + 1
    /\ UNCHANGED <<d_fn, d_now, last_status, seen_fills, d_hasattr, d_printed,
                   d_appeared, d_call>>
    /\ UNCHANGED <<occVars, fillVars, flowVars>>

\* DCA script, line 86: the range is used up
GtcExhausted ==
    /\ d_fn = "gtc"
    /\ d_pc = "loop"
    /\ d_iter >= GtcTimeout
    /\ d_pc' = "done"
    /\ UNCHANGED <<d_fn, d_now, d_iter, last_status, seen_fills, d_hasattr,
                   d_printed, d_last, d_appeared, d_call>>
    /\ UNCHANGED <<occVars, fillVars, flowVars>>

NextDebug ==
    \/ DebugPoll
    \/ DebugTimeoutExit
    \/ GtcPoll
    \/ GtcExhausted

SpecDebug == InitDebug /\ [][NextDebug]_vars

\* The process calls the executor's tracker again, for another order: the
\* locals start afresh (lines 445-446), the function attribute seen_fills is
\* what the first call left (lines 467-468 create it only when it is absent)
DebugCallAgain ==
    /\ d_fn \in {"def21", "def439"}
    /\ d_pc = "done"
    /\ d_call = 1
    /\ d_call' = 2
    /\ d_pc' = "loop"
    /\ d_now' = 0
    /\ last_status' = "None"
    /\ d_printed' = [f \in FillIds |-> 0]
    /\ d_appeared' = [f \in FillIds |-> 0]
    /\ d_last' = NoDebugPoll
    /\ UNCHANGED <<d_fn, d_iter, seen_fills, d_hasattr>>
    /\ UNCHANGED <<occVars, fillVars, flowVars>>

NextDebugTwice ==
    \/ NextDebug
    \/ DebugCallAgain

\* Two calls of the tracker in one process
SpecDebugTwice == InitDebug /\ [][NextDebugTwice]_vars

\* ------------------------------------------------------------------------
\* Claims about debug_order_status
\* ------------------------------------------------------------------------
\* The latest poll brought a body the tracker read without raising
DebugLastRead == d_last.kind = "ok" /\ WellFormed(d_last.fills)

\* C6: in every debug_order_status, once a response reports Filled, Rejected,
\* Cancelled or Expired the tracker has stopped: it makes no further poll.
C6_TerminalStopsPolling ==
    (DebugLastRead /\ d_last.status \in {"Filled", "Rejected", "Cancelled", "Expired"})
        => (d_pc = "done" /\ ~ENABLED DebugPoll /\ ~ENABLED GtcPoll)

\* The part of C6 that holds: the two trackers of the executor script
ExecutorTrackerStopsAtTerminal ==
    (d_fn \in {"def21", "def439"} /\ DebugLastRead
        /\ d_last.status \in {"Filled", "Rejected", "Cancelled", "Expired"})
        => (d_pc = "done" /\ ~ENABLED DebugPoll)

\* C9: within the call, a fill-id the fill lists held (in one poll or in
\* several) has been printed exactly once, from the first poll that held it
\* on; no fill is printed twice.
C9_FillPrintedOnce ==
    /\ \A f \in FillIds : d_printed[f] <= 1
    /\ \A f \in FillIds : d_appeared[f] > 0 => d_printed[f] = 1
    /\ \A f \in FillIds : d_printed[f] = 1 => f \in seen_fills

\* C9 witness: a fill two polls held, printed once
C9_Witness == d_appeared["f1"] = 2 /\ d_printed["f1"] = 1

\* C21: in a second call of the same process, a fill-id the fill lists of
\* the second order held has been printed in that call, also when the first
\* call recorded the same id for the first order.
C21_SeenFillsPerOrder ==
    (d_call = 2 /\ DebugLastRead) =>
        \A f \in FillIds : d_appeared[f] > 0 => d_printed[f] = 1

\* Within the second call no fill is printed twice
SecondCallPrintsAtMostOnce ==
    d_call = 2 => \A f \in FillIds : d_printed[f] <= 1

\* ------------------------------------------------------------------------
\* The SGOV cash-balance script: its request helpers and its main
\* ------------------------------------------------------------------------
\* What a request can bring: an exception of the request (no response), or a
\* response with a status code
RequestFailed == [kind |-> "exc", code |-> 0]

HttpStatus(c) == [kind |-> "http", code |-> c]

\* The strings of the order payloads
BuyStr == <<"B", "u", "y">>

SellStr == <<"S", "e", "l", "l">>

BuyToOpen == <<"B", "u", "y", " ", "t", "o", " ", "O", "p", "e", "n">>

SellToOpen == <<"S", "e", "l", "l", " ", "t", "o", " ", "O", "p", "e", "n">>

SellToClose == <<"S", "e", "l", "l", " ", "t", "o", " ", "C", "l", "o", "s", "e">>

\* action = None (falsy, like the empty string)
NoAction == <<>>

\* sub in s
Contains(sub, s) ==
    \E i \in 1..(Len(s) - Len(sub) + 1) : SubSeq(s, i, i + Len(sub) - 1) = sub

\* Pairs (cash, price) in cents of the model whose quotient in double
\* arithmetic, cash // price, is one below the floor of cash / price:
\* 500.05 // 100.01 is 4.0
FloorDivShortfall == {<<50005, 10001>>}

\* int(a // b) of two floats a > b > 0 given in cents
FloorDiv(a, b) ==
    IF <<a, b>> \in FloorDivShortfall THEN a \div b - 1 ELSE a \div b

\* math.ceil(a / b) for a >= 0, b > 0
CeilDiv(a, b) == (a + b - 1) \div b

\* login: the session-creation response
LoginResponses == {RequestFailed} \cup {HttpStatus(c) : c \in {201, 200, 401}}

\* logout: the session-delete response
LogoutResponses == {RequestFailed} \cup {HttpStatus(c) : c \in {204, 401}}

\* cash-balance values of the first snapshot, in cents
CashBalances == {-15000, 5000, 50005, 100000}

\* cash-balance values of the second snapshot: lower, the same, higher; by
\* 60.00 and by 0.01
NewCashBalances(before) ==
    {before - 6000, before - 1, before, before + 1, before + 6000}

\* The balances response: has is FALSE when the body has no cash-balance
BalanceResponses(values) ==
    {[kind |-> "exc", code |-> 0, has |-> FALSE, cash |-> 0]}
    \cup {[kind |-> "http", code |-> 500, has |-> FALSE, cash |-> 0]}
    \cup {[kind |-> "http", code |-> 200, has |-> FALSE, cash |-> 0]}
    \cup {[kind |-> "http", code |-> 200, has |-> TRUE, cash |-> v] : v \in values}

\* fetch_balances, then float(balances.get("cash-balance", 0))
fetch_balances(r) ==
    [raised |-> r.kind = "exc" \/ r.code # 200,
     cash   |-> IF r.has THEN r.cash ELSE 0]

\* An item of the positions response.  quantity: a number, absent, or a
\* string float() rejects
NumQty(n) == [kind |-> "num", val |-> n]

NoQty == [kind |-> "missing", val |-> 0]

BadQty == [kind |-> "bad", val |-> 0]

PositionItem(s, q) == [symbol |-> s, quantity |-> q]

SgovQuantities == {0, 3, 10}

\* The item lists of the positions response
PositionItemLists ==
    {<<>>, <<PositionItem("TQQQ", NumQty(5))>>,
     <<PositionItem("SGOV", NoQty)>>, <<PositionItem("SGOV", BadQty)>>}
    \cup {<<PositionItem("SGOV", NumQty(n))>> : n \in SgovQuantities}
    \cup {<<PositionItem("TQQQ", NumQty(5)), PositionItem("SGOV", NumQty(n))>> :
             n \in SgovQuantities}

PositionResponses ==
    {[kind |-> "exc", code |-> 0, items |-> <<>>]}
    \cup {[kind |-> "http", code |-> c, items |-> <<>>] : c \in {401, 500}}
    \cup {[kind |-> "http", code |-> 200, items |-> l] : l \in PositionItemLists}

\* Faulty variant: a failed positions call raises
PositionCallFailed_Raises == [raised |-> TRUE, ret |-> 0, warned |-> FALSE]

\* get_sgov_position, lines 171-173: the positions call failed
PositionCallFailed == [raised |-> FALSE, ret |-> 0, warned |-> TRUE]

\* get_sgov_position, lines 175-181: the first item whose symbol is SGOV
RECURSIVE ScanPositions(_)
ScanPositions(items) ==
    IF items = <<>> THEN [raised |-> FALSE, ret |-> 0, warned |-> FALSE]
    ELSE IF Head(items).symbol = "SGOV"
         THEN [raised |-> Head(items).quantity.kind = "bad",
               ret    |-> IF Head(items).quantity.kind = "num"
                          THEN Head(items).quantity.val ELSE 0,
               warned |-> FALSE]
         ELSE ScanPositions(Tail(items))

get_sgov_position(r) ==
    IF r.kind = "exc" THEN [raised |-> TRUE, ret |-> 0, warned |-> FALSE]
    ELSE IF r.code # 200 THEN PositionCallFailed
    ELSE ScanPositions(r.items)

\* An item of a market-data response; mid and last are price values
QuoteItem(s, mid, last) == [symbol |-> s, mid |-> mid, last |-> last]

\* mid / last: absent, no number, zero, negative, positive (cents)
QuotePrices ==
    {NonePrice, BadStrPrice, StrPrice(0), StrPrice(-150), StrPrice(10001),
     StrPrice(10050)}

QuoteSymbols == {"SGOV", "TQQQ"}

QuoteItemLists ==
    {<<>>} \cup {<<QuoteItem(s, m, l)>> : s \in QuoteSymbols, m \in QuotePrices,
                                          l \in QuotePrices}

\* The market-data response: json is FALSE when the body is no JSON
QuoteResponses ==
    {[kind |-> "exc", code |-> 0, json |-> FALSE, items |-> <<>>]}
    \cup {[kind |-> "http", code |-> 500, json |-> FALSE, items |-> <<>>]}
    \cup {[kind |-> "http", code |-> 200, json |-> FALSE, items |-> <<>>]}
    \cup {[kind |-> "http", code |-> 200, json |-> TRUE, items |-> l] :
             l \in QuoteItemLists}

\* A reader of a price either raises or returns a float (cents)
Raises == [raised |-> TRUE, ret |-> 0]

Returns(v) == [raised |-> FALSE, ret |-> v]

\* float(p) of a price value: raises on None and on a string that is no number
FloatOf(p) == IF p.kind \in {"none", "badstr"} THEN Raises ELSE Returns(p.val)

fetch_sgov_price(r) ==
    IF r.kind = "exc" \/ r.code # 200 \/ ~r.json THEN Raises
    ELSE IF r.items = <<>> THEN Raises
    ELSE LET last_price_str == r.items[1].last
         IN  IF ~Truthy(last_price_str) THEN Raises
             ELSE IF FloatOf(last_price_str).raised THEN Raises
             ELSE IF FloatOf(last_price_str).ret <= 0 THEN Raises
             ELSE FloatOf(last_price_str)

\* The order response: the id of data.order ("missing": no id, "null": null)
OrderResponses ==
    {[kind |-> "exc", code |-> 0, id |-> "missing"]}
    \cup {[kind |-> "http", code |-> 400, id |-> "missing"]}
    \cup {[kind |-> "http", code |-> c, id |-> i] :
             c \in {200, 201}, i \in {"o1", "missing", "null"}}

\* Faulty variant: the price effect taken from the side that was not asked
OrderPriceEffect_Swapped(api_action) ==
    IF Contains(BuyStr, api_action) THEN "Credit" ELSE "Debit"

\* place_order, line 249
OrderApiAction(action) ==
    IF Upper(action) = Upper(BuyStr) THEN BuyToOpen ELSE SellToClose

\* place_order, line 250
OrderPriceEffect(api_action) ==
    IF Contains(BuyStr, api_action) THEN "Debit" ELSE "Credit"

\* place_order, lines 251-261: the fields of the payload the model follows
OrderPayload(action, quantity) ==
    [effect   |-> OrderPriceEffect(OrderApiAction(action)),
     action   |-> OrderApiAction(action),
     quantity |-> quantity]

\* Faulty variant: the request is made in a dry run too
place_order_IgnoresDryRun(dry_run, action, quantity, r) ==
    [raised   |-> r.kind = "exc" \/ r.code \notin {200, 201},
     sent     |-> TRUE,
     payload  |-> OrderPayload(action, quantity),
     order_id |-> CASE r.id = "missing" -> "unknown"
                    [] r.id = "null" -> "None"
                    [] OTHER -> r.id]

\* place_order: sent is FALSE when no request was made (dry run)
place_order(dry_run, action, quantity, r) ==
    IF dry_run
    THEN [raised |-> FALSE, sent |-> FALSE, payload |-> NoPayload, order_id |-> "None"]
    ELSE [raised   |-> r.kind = "exc" \/ r.code \notin {200, 201},
          sent     |-> TRUE,
          payload  |-> OrderPayload(action, quantity),
          order_id |-> CASE r.id = "missing" -> "unknown"
                         [] r.id = "null" -> "None"
                         [] OTHER -> r.id]

\* logout, lines 381-393: raises only when the request itself fails; any
\* response, 204 or not, ends the call normally
logout(r) == [raised |-> r.kind = "exc", warned |-> r.kind = "http" /\ r.code # 204]

\* main, lines 436-488: the trade decided.  day is "first" (first trading day
\* of the month), "last" (last trading day, 15:55 or later) or "other"
DecideTrade(day, cash, price, shares) ==
    IF day = "first"
    THEN IF cash < 0
         THEN LET qty_to_sell == Min(CeilDiv(-cash + 500, price), shares)
              IN  IF qty_to_sell > 0
                  THEN [action |-> SellStr, qty |-> qty_to_sell]
                  ELSE [action |-> NoAction, qty |-> 0]
         ELSE IF cash > price
              THEN [action |-> BuyStr, qty |-> FloorDiv(cash, price)]
              ELSE [action |-> NoAction, qty |-> 0]
    ELSE IF day = "last"
    THEN IF shares > 0
         THEN [action |-> SellStr, qty |-> shares]
         ELSE [action |-> NoAction, qty |-> 0]
    ELSE IF cash < 0
    THEN LET qty == Min(IF -cash < price THEN 1 ELSE CeilDiv(-cash, price), shares)
         IN  [action |-> IF qty > 0 THEN SellStr ELSE NoAction, qty |-> qty]
    ELSE [action |-> NoAction, qty |-> 0]

\* Faulty variant: both signals are required
Reconcile_BothSignals(action, cashBefore, newCash, sharesBefore, newPosition) ==
    LET cash_changed == IF action = SellStr THEN newCash > cashBefore
                        ELSE newCash < cashBefore
        position_changed == IF action = SellStr THEN newPosition < sharesBefore
                            ELSE newPosition > sharesBefore
    IN  IF cash_changed /\ position_changed THEN "filled" ELSE "pending"

\* main, lines 528-540: the comparison of the two snapshots
Reconcile(action, cashBefore, newCash, sharesBefore, newPosition) ==
    LET cash_changed == IF action = SellStr THEN newCash > cashBefore
                        ELSE newCash < cashBefore
        position_changed == IF action = SellStr THEN newPosition < sharesBefore
                            ELSE newPosition > sharesBefore
    IN  IF cash_changed \/ position_changed THEN "filled" ELSE "pending"

\* login, lines 110-123
login(r) == [raised |-> r.kind = "exc" \/ r.code # 201]

\* The session token a login returns: a fresh one each time
NextToken(obtained) == IF obtained = {} THEN "t1" ELSE "t2"

InitMain ==
    /\ m_pc = "start"
    /\ m_args \in [auto : BOOLEAN, dry_run : BOOLEAN]
    /\ m_clock \in [open : BOOLEAN, day : {"first", "last", "other"}]
    /\ m_token = "none"
    /\ cash_before = 0
    /\ sgov_shares_before = 0
    /\ sgov_price = 0
    /\ m_action = NoAction
    /\ m_qty = 0
    /\ m_order_id = "None"
    /\ m_payload = NoPayload
    /\ new_cash = 0
    /\ new_position = 0
    /\ m_verdict = "none"
    /\ m_exit = "none"
    /\ m_obtained = {}
    /\ m_released = {}
    /\ p_resp = NoPositions
    /\ p_out = NoPositionOut
    /\ m_sent = [logins |-> 0, orders |-> 0, logouts |-> 0, answer |-> "none"]
    /\ OccIdle
    /\ FillIdle
    /\ DebugIdle
    /\ ExtIdle
    /\ OrderIdle
    /\ ApiIdle
    /\ QuoteIdle

\* main, lines 406-408: the market is closed today
MainMarketClosed ==
    /\ m_pc = "start"
    /\ ~m_clock.open
    /\ m_pc' = "done"
    /\ m_exit' = "return"
    /\ UNCHANGED m_sent
    /\ UNCHANGED <<m_args, m_clock, m_token, cash_before, sgov_shares_before,
                   sgov_price, m_action, m_qty, m_order_id, m_payload, new_cash,
                   new_position, m_verdict, m_obtained, m_released, p_resp, p_out>>
    /\ UNCHANGED <<occVars, fillVars, dbgVars, orderVars, apiVars, quoteVars,
                   extVars>>

\* main, line 429
MainLogin ==
    /\ m_pc = "start"
    /\ m_clock.open
    /\ \E r \in LoginResponses :
        IF login(r).raised
        THEN /\ m_pc' = "done"
             /\ m_exit' = "raise"
             /\ UNCHANGED <<m_token, m_obtained>>
        ELSE /\ m_pc' = "balances"
             /\ m_token' = NextToken(m_obtained)
             /\ m_obtained' = m_obtained \cup {NextToken(m_obtained)}
             /\ UNCHANGED m_exit
    /\ m_sent' = [m_sent EXCEPT !.logins = @ + 1]
    /\ UNCHANGED <<m_args, m_clock, cash_before, sgov_shares_before, sgov_price,
                   m_action, m_qty, m_order_id, m_payload, new_cash, new_position,
                   m_verdict, m_released, p_resp, p_out>>
    /\ UNCHANGED <<occVars, fillVars, dbgVars, orderVars, apiVars, quoteVars,
                   extVars>>

\* main, lines 430-431
MainFetchBalances ==
    /\ m_pc = "balances"
    /\ \E r \in BalanceResponses(CashBalances) :
        IF fetch_balances(r).raised
        THEN /\ m_pc' = "done"
             /\ m_exit' = "raise"
             /\ UNCHANGED cash_before
        ELSE /\ m_pc' = "position"
             /\ cash_before' = fetch_balances(r).cash
             /\ UNCHANGED m_exit
    /\ UNCHANGED m_sent
    /\ UNCHANGED <<m_args, m_clock, m_token, sgov_shares_before, sgov_price,
                   m_action, m_qty, m_order_id, m_payload, new_cash, new_position,
                   m_verdict, m_obtained, m_released, p_resp, p_out>>
    /\ UNCHANGED <<occVars, fillVars, dbgVars, orderVars, apiVars, quoteVars,
                   extVars>>

\* main, line 432
MainGetPosition ==
    /\ m_pc = "position"
    /\ \E r \in PositionResponses :
        /\ p_resp' = r
        /\ p_out' = get_sgov_position(r)
        /\ IF get_sgov_position(r).raised
           THEN /\ m_pc' = "done"
                /\ m_exit' = "raise"
                /\ UNCHANGED sgov_shares_before
           ELSE /\ m_pc' = "price"
                /\ sgov_shares_before' = get_sgov_position(r).ret
                /\ UNCHANGED m_exit
    /\ UNCHANGED m_sent
    /\ UNCHANGED <<m_args, m_clock, m_token, cash_before, sgov_price, m_action,
                   m_qty, m_order_id, m_payload, new_cash, new_position,
                   m_verdict, m_obtained, m_released>>
    /\ UNCHANGED <<occVars, fillVars, dbgVars, orderVars, apiVars, quoteVars,
                   extVars>>

\* main, lines 433-497: the price, the trade decided, and where main goes
\* next: the prompt, the order, or the final cleanup
MainFetchPrice ==
    /\ m_pc = "price"
    /\ \E r \in QuoteResponses :
        IF fetch_sgov_price(r).raised
        THEN /\ m_pc' = "done"
             /\ m_exit' = "raise"
             /\ UNCHANGED <<sgov_price, m_action, m_qty>>
        ELSE LET price == fetch_sgov_price(r).ret
                 d == DecideTrade(m_clock.day, cash_before, price, sgov_shares_before)
             IN  /\ sgov_price' = price
                 /\ m_action' = d.action
                 /\ m_qty' = d.qty
                 /\ m_pc' = IF d.action = NoAction \/ d.qty <= 0 THEN "final_logout"
                            ELSE IF ~m_args.auto /\ ~m_args.dry_run THEN "confirm"
                            ELSE "place"
                 /\ UNCHANGED m_exit
    /\ UNCHANGED m_sent
    /\ UNCHANGED <<m_args, m_clock, m_token, cash_before, sgov_shares_before,
                   m_order_id, m_payload, new_cash, new_position, m_verdict,
                   m_obtained, m_released, p_resp, p_out>>
    /\ UNCHANGED <<occVars, fillVars, dbgVars, orderVars, apiVars, quoteVars,
                   extVars>>

\* main, lines 498-501: the answer at the confirmation prompt
MainConfirm ==
    /\ m_pc = "confirm"
    /\ \E confirm \in {"y", "n"} :
        /\ m_pc' = IF confirm # "y" THEN "cancel_logout" ELSE "place"
        /\ m_sent' = [m_sent EXCEPT !.answer = confirm]
    /\ UNCHANGED <<m_args, m_clock, m_token, cash_before, sgov_shares_before,
                   sgov_price, m_action, m_qty, m_order_id, m_payload, new_cash,
                   new_position, m_verdict, m_exit, m_obtained, m_released,
                   p_resp, p_out>>
    /\ UNCHANGED <<occVars, fillVars, dbgVars, orderVars, apiVars, quoteVars,
                   extVars>>

\* main, lines 502-505: the logout after a cancelled trade
MainCancelLogout ==
    /\ m_pc = "cancel_logout"
    /\ \E r \in LogoutResponses :
        /\ m_pc' = "done"
        /\ m_exit' = IF logout(r).raised THEN "raise" ELSE "return"
        /\ m_released' = IF logout(r).raised THEN m_released
                         ELSE m_released \cup {m_token}
    /\ m_sent' = [m_sent EXCEPT !.logouts = @ + 1]
    /\ UNCHANGED <<m_args, m_clock, m_token, cash_before, sgov_shares_before,
                   sgov_price, m_action, m_qty, m_order_id, m_payload, new_cash,
                   new_position, m_verdict, m_obtained, p_resp, p_out>>
    /\ UNCHANGED <<occVars, fillVars, dbgVars, orderVars, apiVars, quoteVars,
                   extVars>>

\* main, lines 508-511 and 541-542
MainPlaceOrder ==
    /\ m_pc = "place"
    /\ \E r \in OrderResponses :
        LET o == place_order(m_args.dry_run, m_action, m_qty, r)
        IN  /\ m_payload' = o.payload
            /\ m_sent' = [m_sent EXCEPT !.orders = IF o.sent THEN @ + 1 ELSE @]
            /\ IF o.raised
               THEN /\ m_pc' = "done"
                    /\ m_exit' = "raise"
                    /\ UNCHANGED m_order_id
               ELSE /\ m_order_id' = o.order_id
                    /\ m_pc' = IF o.order_id # "None" /\ ~m_args.dry_run
                               THEN "verify_logout" ELSE "final_logout"
                    /\ UNCHANGED m_exit
    /\ UNCHANGED <<m_args, m_clock, m_token, cash_before, sgov_shares_before,
                   sgov_price, m_action, m_qty, new_cash, new_position, m_verdict,
                   m_obtained, m_released, p_resp, p_out>>
    /\ UNCHANGED <<occVars, fillVars, dbgVars, orderVars, apiVars, quoteVars,
                   extVars>>

\* main, lines 515-518: the logout of the verification cycle
MainVerifyLogout ==
    /\ m_pc = "verify_logout"
    /\ \E r \in LogoutResponses :
        IF logout(r).raised
        THEN /\ m_pc' = "done"
             /\ m_exit' = "raise"
             /\ UNCHANGED m_released
        ELSE /\ m_pc' = "relogin"
             /\ m_released' = m_released \cup {m_token}
             /\ UNCHANGED m_exit
    /\ m_sent' = [m_sent EXCEPT !.logouts = @ + 1]
    /\ UNCHANGED <<m_args, m_clock, m_token, cash_before, sgov_shares_before,
                   sgov_price, m_action, m_qty, m_order_id, m_payload, new_cash,
                   new_position, m_verdict, m_obtained, p_resp, p_out>>
    /\ UNCHANGED <<occVars, fillVars, dbgVars, orderVars, apiVars, quoteVars,
                   extVars>>

\* main, line 521
MainRelogin ==
    /\ m_pc = "relogin"
    /\ \E r \in LoginResponses :
        IF login(r).raised
        THEN /\ m_pc' = "done"
             /\ m_exit' = "raise"
             /\ UNCHANGED <<m_token, m_obtained>>
        ELSE /\ m_pc' = "new_balances"
             /\ m_token' = NextToken(m_obtained)
             /\ m_obtained' = m_obtained \cup {NextToken(m_obtained)}
             /\ UNCHANGED m_exit
    /\ m_sent' = [m_sent EXCEPT !.logins = @ + 1]
    /\ UNCHANGED <<m_args, m_clock, cash_before, sgov_shares_before, sgov_price,
                   m_action, m_qty, m_order_id, m_payload, new_cash, new_position,
                   m_verdict, m_released, p_resp, p_out>>
    /\ UNCHANGED <<occVars, fillVars, dbgVars, orderVars, apiVars, quoteVars,
                   extVars>>

\* main, line 524
MainFetchNewBalances ==
    /\ m_pc = "new_balances"
    /\ \E r \in BalanceResponses(NewCashBalances(cash_before)) :
        IF fetch_balances(r).raised
        THEN /\ m_pc' = "done"
             /\ m_exit' = "raise"
             /\ UNCHANGED new_cash
        ELSE /\ m_pc' = "new_position"
             /\ new_cash' = fetch_balances(r).cash
             /\ UNCHANGED m_exit
    /\ UNCHANGED m_sent
    /\ UNCHANGED <<m_args, m_clock, m_token, cash_before, sgov_shares_before,
                   sgov_price, m_action, m_qty, m_order_id, m_payload,
                   new_position, m_verdict, m_obtained, m_released, p_resp, p_out>>
    /\ UNCHANGED <<occVars, fillVars, dbgVars, orderVars, apiVars, quoteVars,
                   extVars>>

\* main, lines 525-540: the second position and the comparison
MainGetNewPosition ==
    /\ m_pc = "new_position"
    /\ \E r \in PositionResponses :
        /\ p_resp' = r
        /\ p_out' = get_sgov_position(r)
        /\ IF get_sgov_position(r).raised
           THEN /\ m_pc' = "done"
                /\ m_exit' = "raise"
                /\ UNCHANGED <<new_position, m_verdict>>
           ELSE /\ m_pc' = "final_logout"
                /\ new_position' = get_sgov_position(r).ret
                /\ m_verdict' = Reconcile(m_action, cash_before, new_cash,
                                          sgov_shares_before, get_sgov_position(r).ret)
                /\ UNCHANGED m_exit
    /\ UNCHANGED m_sent
    /\ UNCHANGED <<m_args, m_clock, m_token, cash_before, sgov_shares_before,
                   sgov_price, m_action, m_qty, m_order_id, m_payload, new_cash,
                   m_obtained, m_released>>
    /\ UNCHANGED <<occVars, fillVars, dbgVars, orderVars, apiVars, quoteVars,
                   extVars>>

\* main, lines 545-546
MainFinalLogout ==
    /\ m_pc = "final_logout"
    /\ \E r \in LogoutResponses :
        /\ m_pc' = "done"
        /\ m_exit' = IF logout(r).raised THEN "raise" ELSE "return"
        /\ m_released' = IF logout(r).raised THEN m_released
                         ELSE m_released \cup {m_token}
    /\ m_sent' = [m_sent EXCEPT !.logouts = @ + 1]
    /\ UNCHANGED <<m_args, m_clock, m_token, cash_before, sgov_shares_before,
                   sgov_price, m_action, m_qty, m_order_id, m_payload, new_cash,
                   new_position, m_verdict, m_obtained, p_resp, p_out>>
    /\ UNCHANGED <<occVars, fillVars, dbgVars, orderVars, apiVars, quoteVars,
                   extVars>>

NextMain ==
    \/ MainMarketClosed
    \/ MainLogin
    \/ MainFetchBalances
    \/ MainGetPosition
    \/ MainFetchPrice
    \/ MainConfirm
    \/ MainCancelLogout
    \/ MainPlaceOrder
    \/ MainVerifyLogout
    \/ MainRelogin
    \/ MainFetchNewBalances
    \/ MainGetNewPosition
    \/ MainFinalLogout

SpecMain == InitMain /\ [][NextMain]_vars

\* ------------------------------------------------------------------------
\* Properties of the SGOV script
\* ------------------------------------------------------------------------
\* The trade moved cash the way a fill of this action moves it
CashMovedAsExpected ==
    IF m_action = BuyStr THEN new_cash < cash_before ELSE new_cash > cash_before

\* The trade moved the position the way a fill of this action moves it
PositionMovedAsExpected ==
    IF m_action = BuyStr THEN new_position > sgov_shares_before
    ELSE new_position < sgov_shares_before

\* C11: once the two snapshots are compared, the order counts as effectively
\* filled exactly when cash or the position moved in the direction of the
\* trade (buy: less cash or more shares; sell: more cash or fewer shares);
\* one signal is enough, and with cash and position both unchanged the order
\* counts as possibly pending.
C11_ReconcileEitherSignal ==
    m_verdict # "none" =>
        /\ m_action \in {BuyStr, SellStr}
        /\ m_verdict = "filled" <=> (CashMovedAsExpected \/ PositionMovedAsExpected)
        /\ (new_cash = cash_before /\ new_position = sgov_shares_before)
               => m_verdict = "pending"

\* C11 witness: a buy after which cash went from 1000.00 to 940.00 while the
\* position stayed as it was, counted as filled
C11_Witness ==
    /\ m_verdict = "filled"
    /\ m_action = BuyStr
    /\ cash_before = 100000
    /\ new_cash = 94000
    /\ new_position = sgov_shares_before

\* C14: when main has ended, by return or by an exception, logout has been
\* completed for every session token that login returned.
C14_TokensReleasedOnExit == m_pc = "done" => m_obtained \subseteq m_released

\* When main ends by return (normal completion, cancellation at the prompt),
\* logout has been completed for every session token
MainReturnReleasesTokens == m_exit = "return" => m_obtained \subseteq m_released

\* The items of the latest positions response whose symbol is SGOV
SgovIndexes == {i \in 1..Len(p_resp.items) : p_resp.items[i].symbol = "SGOV"}

\* The first of them
FirstSgovItem ==
    p_resp.items[CHOOSE i \in SgovIndexes : \A j \in SgovIndexes : i <= j]

\* C17: get_sgov_position returns 0 and logs a warning when the positions
\* call answers with a status other than 200, returns 0 without raising when
\* the response holds no SGOV item, and otherwise returns the quantity of the
\* SGOV item.
C17_PositionOrZero ==
    p_resp.kind = "http" =>
        /\ p_resp.code # 200 => (~p_out.raised /\ p_out.ret = 0 /\ p_out.warned)
        /\ (p_resp.code = 200 /\ SgovIndexes = {}) => (~p_out.raised /\ p_out.ret = 0)
        /\ (p_resp.code = 200 /\ SgovIndexes # {}
              /\ FirstSgovItem.quantity.kind = "num")
             => (~p_out.raised /\ p_out.ret = FirstSgovItem.quantity.val)

\* C17 witness: the second positions call of main answered 500 and main went
\* on with a position of 0
C17_Witness ==
    /\ p_resp.kind = "http"
    /\ p_resp.code = 500
    /\ m_pc = "final_logout"
    /\ new_position = 0
    /\ m_verdict # "none"

\* C22: with the position unchanged, a cash movement in the expected
\* direction that is within the noise tolerance (0.01) does not make the
\* order count as effectively filled.
C22_CashNoiseIsNoFill ==
    (m_verdict # "none" /\ new_position = sgov_shares_before
        /\ Abs(new_cash - cash_before) <= 1) => m_verdict = "pending"

\* C27: an order request is sent only when --dry-run is not set and --auto
\* is set or the prompt was answered y; at most one order is sent per run;
\* after a declined prompt no order is sent and logout is called; a dry run
\* sends no order and makes no logout/re-login cycle; on a closed market
\* the run ends before any login.
C27_OrderOnlyWhenConfirmed ==
    /\ m_sent.orders <= 1
    /\ m_sent.orders = 1 =>
          (~m_args.dry_run /\ (m_args.auto \/ m_sent.answer = "y"))
    /\ m_sent.answer = "n" =>
          (m_sent.orders = 0 /\ (m_pc = "done" => m_sent.logouts = 1))
    /\ m_args.dry_run =>
          (m_sent.orders = 0 /\ m_sent.logins <= 1 /\ m_sent.logouts <= 1
             /\ m_verdict = "none")
    /\ ~m_clock.open => (m_sent.logins = 0 /\ m_sent.logouts = 0)

\* C27 witness: a run without --auto in which the prompt was answered y and
\* the one order was sent
C27_Witness ==
    /\ ~m_args.auto
    /\ m_sent.answer = "y"
    /\ m_sent.orders = 1
    /\ m_pc = "done"
    /\ m_exit = "return"

\* The trade has been decided
TradeDecided == m_pc \in {"confirm", "place", "final_logout"} /\ m_sent.logouts = 0

\* C28: a decided Buy has quantity floor(cash / price), at least 1, with
\* quantity * price within the cash balance; a decided Sell has a quantity
\* of at least 1 and at most the shares held; Buy is never decided while
\* cash is negative.
C28_DecidedQuantities ==
    TradeDecided =>
        /\ m_action = BuyStr =>
              /\ m_qty = cash_before \div sgov_price
              /\ m_qty >= 1
              /\ m_qty * sgov_price <= cash_before
              /\ cash_before >= 0
        /\ m_action = SellStr => (m_qty >= 1 /\ m_qty <= sgov_shares_before)

\* The bounds C28 states hold: a Buy is of at least one share and within the
\* cash balance, a Sell of at least one share and within the holdings
DecidedTradeWithinBounds ==
    TradeDecided =>
        /\ m_action = BuyStr =>
              (m_qty >= 1 /\ m_qty * sgov_price <= cash_before /\ cash_before >= 0)
        /\ m_action = SellStr => (m_qty >= 1 /\ m_qty <= sgov_shares_before)

\* ------------------------------------------------------------------------
\* The order payload builders
\* ------------------------------------------------------------------------
\* place_order's action argument as callers may spell it
OrderActions ==
    {BuyStr, SellStr, <<"b", "u", "y">>, <<"B", "U", "Y">>, <<"s", "e", "l", "l">>}

\* --side as argparse admits it (line 101) and as prompt_missing sets it
OrderSides == {"buy", "sell", "b", "s"}

OrderQuantities == {1, 45}

\* limit prices in cents; 0 asks for a market order
OrderPrices == {0, 15}

OrderSymbols == {<<"T", "Q", "Q", "Q">>, <<"T">>}

OrderArgs ==
    [action : OrderActions, side : OrderSides, symbol : OrderSymbols,
     expiry : ExpiryDates, strike : Strikes, quantity : OrderQuantities,
     price : OrderPrices]

\* place_buy_order of the day-order script
place_buy_order(quantity, limit_price) ==
    [effect |-> "Debit", action |-> BuyToOpen, quantity |-> quantity,
     price |-> limit_price]

\* place_sell_order of the day-order script
place_sell_order(quantity, limit_price) ==
    [effect |-> "Credit", action |-> SellToClose, quantity |-> quantity,
     price |-> limit_price]

\* A leg of an option order
OptionLeg(symbol, quantity, action) ==
    [instrument |-> "Equity Option", symbol |-> symbol, quantity |-> quantity,
     action |-> action]

\* build_risk_reversal_order: has_price is FALSE when the payload has no price
build_risk_reversal_order(symbol, expiry, strike, side, quantity, price) ==
    LET put_occ  == build_occ(symbol, expiry, "P", strike)
        call_occ == build_occ(symbol, expiry, "C", strike)
        legs == << OptionLeg(put_occ, quantity,
                             IF side = "sell" THEN SellToOpen ELSE BuyToOpen),
                   OptionLeg(call_occ, quantity,
                             IF side = "buy" THEN BuyToOpen ELSE SellToOpen) >>
    IN  [order_type |-> IF price = 0 THEN "Market" ELSE "Limit",
         has_price  |-> price # 0,
         price      |-> price,
         legs       |-> legs]

InitOrder ==
    /\ o_fn = "none"
    /\ o_args \in OrderArgs
    /\ o_payload = NoPayload
    /\ OccIdle
    /\ FillIdle
    /\ DebugIdle
    /\ ExtIdle
    /\ MainIdle
    /\ ApiIdle
    /\ QuoteIdle

CallPlaceOrder ==
    /\ o_fn = "none"
    /\ o_fn' = "place_order"
    /\ \E r \in {x \in OrderResponses : x.kind = "http" /\ x.code = 201} :
        o_payload' = place_order(FALSE, o_args.action, o_args.quantity, r).payload
    /\ UNCHANGED o_args
    /\ UNCHANGED <<occVars, fillVars, dbgVars, mainVars, apiVars, quoteVars,
                   extVars>>

CallPlaceBuyOrder ==
    /\ o_fn = "none"
    /\ o_fn' = "place_buy_order"
    /\ o_payload' = place_buy_order(o_args.quantity, o_args.price)
    /\ UNCHANGED o_args
    /\ UNCHANGED <<occVars, fillVars, dbgVars, mainVars, apiVars, quoteVars,
                   extVars>>

CallPlaceSellOrder ==
    /\ o_fn = "none"
    /\ o_fn' = "place_sell_order"
    /\ o_payload' = place_sell_order(o_args.quantity, o_args.price)
    /\ UNCHANGED o_args
    /\ UNCHANGED <<occVars, fillVars, dbgVars, mainVars, apiVars, quoteVars,
                   extVars>>

CallBuildRiskReversalOrder ==
    /\ o_fn = "none"
    /\ o_fn' = "build_risk_reversal_order"
    /\ o_payload' = build_risk_reversal_order(o_args.symbol, o_args.expiry,
                                              o_args.strike, o_args.side,
                                              o_args.quantity, o_args.price)
    /\ UNCHANGED o_args
    /\ UNCHANGED <<occVars, fillVars, dbgVars, mainVars, apiVars, quoteVars,
                   extVars>>

NextOrder ==
    \/ CallPlaceOrder
    \/ CallPlaceBuyOrder
    \/ CallPlaceSellOrder
    \/ CallBuildRiskReversalOrder

SpecOrder == InitOrder /\ [][NextOrder]_vars

\* ------------------------------------------------------------------------
\* Properties of the order payloads
\* ------------------------------------------------------------------------
\* The payload is a single-leg equity order
SingleLegBuilt == o_fn \in {"place_order", "place_buy_order", "place_sell_order"}

\* The side the caller asked for
AskedToBuy ==
    \/ o_fn = "place_buy_order"
    \/ o_fn = "place_order" /\ Upper(o_args.action) = <<"B", "U", "Y">>

AskedToSell ==
    \/ o_fn = "place_sell_order"
    \/ o_fn = "place_order" /\ Upper(o_args.action) = <<"S", "E", "L", "L">>

\* C12: a single-leg equity payload carries Debit with "Buy to Open" when the
\* side is buy and Credit with "Sell to Close" when the side is sell; none
\* pairs a sell action with Debit or a buy action with Credit.
C12_PriceEffectMatchesSide ==
    SingleLegBuilt =>
        /\ AskedToBuy => (o_payload.effect = "Debit" /\ o_payload.action = BuyToOpen)
        /\ AskedToSell => (o_payload.effect = "Credit" /\ o_payload.action = SellToClose)
        /\ ~(Contains(SellStr, o_payload.action) /\ o_payload.effect = "Debit")
        /\ ~(Contains(BuyStr, o_payload.action) /\ o_payload.effect = "Credit")

\* C12 witness: place_order asked to sell built a Credit payload
C12_Witness ==
    /\ o_fn = "place_order"
    /\ o_args.action = SellStr
    /\ o_payload.effect = "Credit"
    /\ o_payload.action = SellToClose

\* The two legs are one bought and one sold
OppositeLegs(legs) ==
    \/ legs[1].action = SellToOpen /\ legs[2].action = BuyToOpen
    \/ legs[1].action = BuyToOpen /\ legs[2].action = SellToOpen

\* C13: the risk-reversal payload has exactly two legs, a put and a call on
\* the same underlying, expiry, strike and quantity, and the legs have
\* opposite directions (one sold to open, one bought to open) for every side.
C13_RiskReversalLegsOpposite ==
    o_fn = "build_risk_reversal_order" =>
        /\ Len(o_payload.legs) = 2
        /\ o_payload.legs[1].symbol[13] = "P"
        /\ o_payload.legs[2].symbol[13] = "C"
        /\ \A i \in (1..21) \ {13} :
              o_payload.legs[1].symbol[i] = o_payload.legs[2].symbol[i]
        /\ o_payload.legs[1].quantity = o_payload.legs[2].quantity
        /\ OppositeLegs(o_payload.legs)

\* Apart from the directions, the risk-reversal payload is as described: two
\* legs, a put and a call, equal in every other field of the symbol and in
\* quantity
RiskReversalLegsPaired ==
    o_fn = "build_risk_reversal_order" =>
        /\ Len(o_payload.legs) = 2
        /\ o_payload.legs[1].symbol[13] = "P"
        /\ o_payload.legs[2].symbol[13] = "C"
        /\ \A i \in (1..21) \ {13} :
              o_payload.legs[1].symbol[i] = o_payload.legs[2].symbol[i]
        /\ o_payload.legs[1].quantity = o_payload.legs[2].quantity

\* ------------------------------------------------------------------------
\* The TastytradeAPI client (the planner's and the tqqq script's variant)
\* ------------------------------------------------------------------------
\* Calls made on one client
MaxApiCalls == 4

\* token = None
NoToken == 0

\* The response of the session-creation request: body is FALSE when the JSON
\* body holds no data.session-token
ApiLoginResponses ==
    {[kind |-> "exc", code |-> 0, body |-> FALSE]}
    \cup {[kind |-> "http", code |-> 401, body |-> FALSE]}
    \cup {[kind |-> "http", code |-> c, body |-> b] : c \in {200, 201}, b \in BOOLEAN}

\* The response of the session-delete request
ApiLogoutResponses == {RequestFailed} \cup {HttpStatus(c) : c \in {204, 401}}

\* The response of a GET: json is FALSE when the body is no JSON
ApiGetResponses ==
    {[kind |-> "exc", code |-> 0, json |-> FALSE]}
    \cup {[kind |-> "http", code |-> c, json |-> FALSE] : c \in {401, 500}}
    \cup {[kind |-> "http", code |-> 200, json |-> j] : j \in BOOLEAN}

\* Faulty variant: every success status is taken for a login
LoginAccepted_Any2xx(code) == code \in {200, 201}

\* login, line 23: the status that lets login go on
LoginAccepted(code) == code = 201

\* Faulty variant: the token is cleared only when the request succeeded
TokenAfterLogout_KeptOnFailure(tok, r) == IF r.kind = "exc" THEN tok ELSE NoToken

\* logout, lines 38-39: the finally clause
TokenAfterLogout(tok, r) == NoToken

\* Faulty variant: the token is stored before the status is looked at
TastytradeAPI_login_TokenBeforeCheck(variant, tok, hdr, fresh, r) ==
    IF r.kind = "exc" \/ ~LoginAccepted(r.code) \/ ~r.body
    THEN [raised |-> TRUE, sent |-> TRUE, token |-> fresh, header |-> hdr]
    ELSE [raised |-> FALSE, sent |-> TRUE, token |-> fresh,
          header |-> IF variant = "tqqq" THEN fresh ELSE hdr]

\* login: the token and the session's Authorization header after the call.
\* fresh is the session-token of the response.
TastytradeAPI_login(variant, tok, hdr, fresh, r) ==
    IF r.kind = "exc" \/ ~LoginAccepted(r.code) \/ ~r.body
    THEN [raised |-> TRUE, sent |-> TRUE, token |-> tok, header |-> hdr]
    ELSE [raised |-> FALSE, sent |-> TRUE, token |-> fresh,
          header |-> IF variant = "tqqq" THEN fresh ELSE hdr]

\* logout
TastytradeAPI_logout(variant, tok, hdr, r) ==
    IF tok = NoToken
    THEN [raised |-> FALSE, sent |-> FALSE, token |-> tok, header |-> hdr]
    ELSE [raised |-> FALSE, sent |-> TRUE, token |-> TokenAfterLogout(tok, r),
          header |-> IF variant = "tqqq" THEN NoToken ELSE hdr]

\* get: auth is the Authorization header of the request sent
TastytradeAPI_get(variant, tok, hdr, r) ==
    IF tok = NoToken
    THEN [raised |-> TRUE, sent |-> FALSE, auth |-> NoToken]
    ELSE [raised |-> r.kind = "exc" \/ r.code >= 400 \/ ~r.json,
          sent   |-> TRUE,
          auth   |-> IF variant = "tqqq" THEN hdr ELSE tok]

\* The call recorded before any call was made
NoApiCall ==
    [op |-> "none", raised |-> FALSE, sent |-> FALSE, auth |-> NoToken,
     held |-> NoToken, ok |-> FALSE, failed |-> FALSE]

InitApi ==
    /\ a_variant \in {"planner", "tqqq"}
    /\ token = NoToken
    /\ a_header = NoToken
    /\ a_issued = 0
    /\ a_calls = 0
    /\ a_session = NoToken
    /\ a_last = NoApiCall
    /\ OccIdle
    /\ FillIdle
    /\ DebugIdle
    /\ ExtIdle
    /\ MainIdle
    /\ OrderIdle
    /\ QuoteIdle

ApiLogin ==
    /\ a_variant # "idle"
    /\ a_calls < MaxApiCalls
    /\ \E r \in ApiLoginResponses :
        LET o == TastytradeAPI_login(a_variant, token, a_header, a_issued + 1, r)
        IN  /\ token' = o.token
            /\ a_header' = o.header
            /\ a_issued' = IF o.raised THEN a_issued ELSE a_issued + 1
            /\ a_session' = IF o.raised THEN a_session ELSE a_issued + 1
            /\ a_last' = [op |-> "login", raised |-> o.raised, sent |-> o.sent,
                          auth |-> NoToken, held |-> token,
                          ok |-> r.kind = "http" /\ r.code = 201,
                          failed |-> r.kind = "exc"]
    /\ a_calls' = a_calls + 1
    /\ UNCHANGED a_variant
    /\ UNCHANGED <<occVars, fillVars, dbgVars, mainVars, orderVars, quoteVars,
                   extVars>>

ApiLogout ==
    /\ a_variant # "idle"
    /\ a_calls < MaxApiCalls
    /\ \E r \in ApiLogoutResponses :
        LET o == TastytradeAPI_logout(a_variant, token, a_header, r)
        IN  /\ token' = o.token
            /\ a_header' = o.header
            /\ a_last' = [op |-> "logout", raised |-> o.raised, sent |-> o.sent,
                          auth |-> IF o.sent THEN token ELSE NoToken,
                          held |-> token,
                          ok |-> r.kind = "http" /\ r.code = 204,
                          failed |-> r.kind = "exc"]
    /\ a_session' = NoToken
    /\ a_calls' = a_calls + 1
    /\ UNCHANGED <<a_variant, a_issued>>
    /\ UNCHANGED <<occVars, fillVars, dbgVars, mainVars, orderVars, quoteVars,
                   extVars>>

ApiGet ==
    /\ a_variant # "idle"
    /\ a_calls < MaxApiCalls
    /\ \E r \in ApiGetResponses :
        LET o == TastytradeAPI_get(a_variant, token, a_header, r)
        IN  a_last' = [op |-> "get", raised |-> o.raised, sent |-> o.sent,
                       auth |-> o.auth, held |-> token,
                       ok |-> r.kind = "http" /\ r.code = 200,
                       failed |-> r.kind = "exc"]
    /\ a_calls' = a_calls + 1
    /\ UNCHANGED <<a_variant, token, a_header, a_issued, a_session>>
    /\ UNCHANGED <<occVars, fillVars, dbgVars, mainVars, orderVars, quoteVars,
                   extVars>>

NextApi ==
    \/ ApiLogin
    \/ ApiLogout
    \/ ApiGet

SpecApi == InitApi /\ [][NextApi]_vars

\* ------------------------------------------------------------------------
\* Properties of the TastytradeAPI client
\* ------------------------------------------------------------------------
\* is_logged_in (planner variant, lines 14-17)
is_logged_in == token # NoToken

\* C15: logout never raises, also when the session-delete request fails;
\* after it returns the client holds no token, whether or not the request
\* succeeded; a logout with no token held sends no request.
C15_LogoutNeverRaises ==
    a_last.op = "logout" =>
        /\ ~a_last.raised
        /\ ~is_logged_in
        /\ a_last.held = NoToken => ~a_last.sent

\* C15 witness: a logout whose request failed, made while a token was held
C15_Witness ==
    /\ a_last.op = "logout"
    /\ a_last.held # NoToken
    /\ a_last.failed
    /\ a_last.sent
    /\ ~is_logged_in

\* C16: login raises on every response status other than 201 and does not
\* set the token then; get sends a request, carrying the held token, exactly
\* while a token is held, that is after a successful login and before the
\* next logout, and otherwise raises without sending one.
C16_AuthenticatedOnlyWhileLoggedIn ==
    /\ (a_last.op = "login" /\ ~a_last.ok) =>
          (a_last.raised /\ token = a_last.held)
    /\ (a_last.op = "login" /\ ~a_last.ok /\ a_session = NoToken) => ~is_logged_in
    /\ is_logged_in <=> a_session # NoToken
    /\ a_last.op = "get" =>
          /\ a_last.sent <=> a_session # NoToken
          /\ a_last.sent => a_last.auth = a_session
          /\ ~a_last.sent => a_last.raised

\* C16 witness: a get refused after a logout that followed a successful login
C16_Witness ==
    /\ a_last.op = "get"
    /\ ~a_last.sent
    /\ a_last.raised
    /\ a_issued > 0

\* ------------------------------------------------------------------------
\* The spot-price readers
\* ------------------------------------------------------------------------
\* next((i for i in items if i["symbol"] == symbol), None): the index of the
\* item found, 0 for None
RECURSIVE FindQuoteItem(_, _, _)
FindQuoteItem(items, symbol, i) ==
    IF i > Len(items) THEN 0
    ELSE IF items[i].symbol = symbol THEN i
    ELSE FindQuoteItem(items, symbol, i + 1)

\* TastytradeAPI.get of a logged-in client raises
ApiGetRaises(r) == r.kind = "exc" \/ r.code >= 400 \/ ~r.json

\* get_spot_quote, planner variant
get_spot_quote_planner(symbol, r) ==
    IF ApiGetRaises(r) THEN Raises
    ELSE IF FindQuoteItem(r.items, symbol, 1) = 0 THEN Raises
    ELSE FloatOf(r.items[FindQuoteItem(r.items, symbol, 1)].mid)

\* get_spot_quote, tqqq variant
get_spot_quote_tqqq(symbol, r) ==
    IF ApiGetRaises(r) THEN Raises
    ELSE IF FindQuoteItem(r.items, symbol, 1) = 0 THEN Raises
    ELSE LET raw == r.items[FindQuoteItem(r.items, symbol, 1)].mid
             mid == IF Truthy(raw) THEN FloatOf(raw) ELSE Returns(0)
         IN  IF mid.raised THEN Raises
             ELSE IF mid.ret = 0 THEN Raises
             ELSE mid

InitQuote ==
    /\ q_fn = "none"
    /\ q_symbol \in QuoteSymbols
    /\ q_resp \in QuoteResponses
    /\ q_out = Raises
    /\ OccIdle
    /\ FillIdle
    /\ DebugIdle
    /\ ExtIdle
    /\ MainIdle
    /\ OrderIdle
    /\ ApiIdle

CallFetchSgovPrice ==
    /\ q_fn = "none"
    /\ q_symbol = "SGOV"
    /\ q_fn' = "fetch_sgov_price"
    /\ q_out' = fetch_sgov_price(q_resp)
    /\ UNCHANGED <<q_symbol, q_resp>>
    /\ UNCHANGED <<occVars, fillVars, dbgVars, mainVars, orderVars, apiVars,
                   extVars>>

CallGetSpotQuotePlanner ==
    /\ q_fn = "none"
    /\ q_fn' = "get_spot_quote_planner"
    /\ q_out' = get_spot_quote_planner(q_symbol, q_resp)
    /\ UNCHANGED <<q_symbol, q_resp>>
    /\ UNCHANGED <<occVars, fillVars, dbgVars, mainVars, orderVars, apiVars,
                   extVars>>

CallGetSpotQuoteTqqq ==
    /\ q_fn = "none"
    /\ q_fn' = "get_spot_quote_tqqq"
    /\ q_out' = get_spot_quote_tqqq(q_symbol, q_resp)
    /\ UNCHANGED <<q_symbol, q_resp>>
    /\ UNCHANGED <<occVars, fillVars, dbgVars, mainVars, orderVars, apiVars,
                   extVars>>

NextQuote ==
    \/ CallFetchSgovPrice
    \/ CallGetSpotQuotePlanner
    \/ CallGetSpotQuoteTqqq

SpecQuote == InitQuote /\ [][NextQuote]_vars

\* ------------------------------------------------------------------------
\* Properties of the spot-price readers
\* ------------------------------------------------------------------------
\* The price value the reader called is to read: last of the first item for
\* fetch_sgov_price, mid of the symbol's item for get_spot_quote; NonePrice
\* when the response has no such item
QuotedPrice ==
    IF q_resp.kind # "http" \/ q_resp.code # 200 \/ ~q_resp.json THEN NonePrice
    ELSE IF q_fn = "fetch_sgov_price"
         THEN IF q_resp.items = <<>> THEN NonePrice ELSE q_resp.items[1].last
         ELSE IF FindQuoteItem(q_resp.items, q_symbol, 1) = 0 THEN NonePrice
              ELSE q_resp.items[FindQuoteItem(q_resp.items, q_symbol, 1)].mid

\* C18: a spot-price reader either fails or returns a strictly positive
\* price: it fails when the response has no item or no price for the symbol,
\* and it fails when the price is zero or negative.
C18_SpotPricePositive ==
    q_fn # "none" =>
        /\ q_out.raised \/ q_out.ret > 0
        /\ QuotedPrice.kind = "none" => q_out.raised
        /\ (QuotedPrice.kind = "str" /\ QuotedPrice.val <= 0) => q_out.raised

\* fetch_sgov_price does what C18 says of every reader
FetchSgovPricePositive ==
    q_fn = "fetch_sgov_price" =>
        /\ q_out.raised \/ q_out.ret > 0
        /\ QuotedPrice.kind = "none" => q_out.raised
        /\ (QuotedPrice.kind = "str" /\ QuotedPrice.val <= 0) => q_out.raised

\* ------------------------------------------------------------------------
\* The executor's main: login, plan, confirmation, execution, finally
\* ------------------------------------------------------------------------
\* params["instrument"]
Instruments == {"option", "stock", "other"}

\* The response of the order POST: id is FALSE when the body holds no order-id
ExecOrderResponses ==
    {[kind |-> "exc", code |-> 0, id |-> FALSE]}
    \cup {[kind |-> "http", code |-> c, id |-> FALSE] : c \in {400, 401}}
    \cup {[kind |-> "http", code |-> 201, id |-> i] : i \in BOOLEAN}

\* How debug_order_status came back
PollEndings == {"terminal", "timeout"}

\* executor place_order, lines 421-437
ExecPlaceOrderRaises(r) == r.kind = "exc" \/ r.code # 201

\* execute_plan lines 573-595 and execute_stock_dca_order lines 630-650:
\* confirmation, submission in a try block, polling
SubmitAndTrack(confirm, r, poll) ==
    IF confirm # "y" THEN [how |-> "order_cancelled", orders |-> 0]
    ELSE IF ExecPlaceOrderRaises(r) THEN [how |-> "submit_failed", orders |-> 1]
    ELSE IF ~r.id THEN [how |-> "no_order_id", orders |-> 1]
    ELSE IF poll = "timeout" THEN [how |-> "poll_timeout", orders |-> 1]
    ELSE [how |-> "tracked", orders |-> 1]

\* execute_plan: qty_ok is FALSE when int(qty_input) raises (line 535)
execute_plan_flow(has_strikes, qty_ok, confirm, r, poll) ==
    IF ~has_strikes THEN [raised |-> FALSE, how |-> "no_strikes", orders |-> 0]
    ELSE IF ~qty_ok THEN [raised |-> TRUE, how |-> "exception", orders |-> 0]
    ELSE LET o == SubmitAndTrack(confirm, r, poll)
         IN  [raised |-> FALSE, how |-> o.how, orders |-> o.orders]

InitExec ==
    /\ OccIdle
    /\ FillIdle
    /\ DebugIdle
    /\ MainIdle
    /\ OrderIdle
    /\ ApiIdle
    /\ QuoteIdle
    /\ DcaIdle
    /\ PlanIdle
    /\ BalIdle
    /\ x_pc = "login"
    /\ x_token = NoToken
    /\ x_params = [instrument |-> "none", has_plan |-> FALSE]
    /\ x_how = "none"
    /\ x_sent = [logins |-> 0, calls |-> 0, logouts |-> 0, orders |-> 0]
    /\ x_resp = [kind |-> "none", code |-> 0]

\* main, lines 688-690: api.login inside the try block
ExecLogin ==
    /\ x_pc = "login"
    /\ \E r \in ApiLoginResponses :
        LET o == TastytradeAPI_login("planner", x_token, NoToken, 1, r)
        IN  /\ x_token' = o.token
            /\ x_pc' = IF o.raised THEN "finally" ELSE "params"
            /\ x_how' = IF o.raised THEN "login_failed" ELSE x_how
            /\ x_resp' = [kind |-> r.kind, code |-> r.code]
    /\ x_sent' = [x_sent EXCEPT !.logins = @ + 1]
    /\ UNCHANGED x_params
    /\ UNCHANGED exceptExec

\* main, line 695: prompt_missing, which reads a live quote
ExecPromptMissing ==
    /\ x_pc = "params"
    /\ \/ /\ \E i \in Instruments :
                x_params' = [instrument |-> i, has_plan |-> FALSE]
          /\ x_pc' = "spot"
          /\ UNCHANGED x_how
       \/ /\ x_pc' = "finally"
          /\ x_how' = "exception"
          /\ UNCHANGED x_params
    /\ UNCHANGED <<x_token, x_sent>>
    /\ UNCHANGED x_resp
    /\ UNCHANGED exceptExec

\* main, lines 700-701: api.get_spot_quote, with the API's get of lines 42-51
ExecSpotQuote ==
    /\ x_pc = "spot"
    /\ \E r \in ApiGetResponses :
        LET o == TastytradeAPI_get("planner", x_token, NoToken, r)
        IN  /\ x_pc' = IF o.raised THEN "finally"
                       ELSE IF x_params.instrument = "option" THEN "chain"
                       ELSE "plan"
            /\ x_how' = IF o.raised THEN "exception" ELSE x_how
            /\ x_resp' = [kind |-> r.kind, code |-> r.code]
    /\ UNCHANGED <<x_token, x_params, x_sent>>
    /\ UNCHANGED exceptExec

\* main, lines 710-743: the option chain, the expiry and get_filtered_chain;
\* found is FALSE when no expiration fits (lines 719-720, 736-737)
ExecOptionChain ==
    /\ x_pc = "chain"
    /\ \E r \in ApiGetResponses, found \in BOOLEAN, strikes \in BOOLEAN :
        LET o == TastytradeAPI_get("planner", x_token, NoToken, r)
            raised == o.raised \/ ~found
        IN  /\ x_pc' = IF raised THEN "finally" ELSE "plan"
            /\ x_how' = IF raised THEN "exception" ELSE x_how
            /\ x_resp' = [kind |-> r.kind, code |-> r.code]
            /\ x_params' = IF raised THEN x_params
                           ELSE [x_params EXCEPT !.has_plan = strikes]
    /\ UNCHANGED <<x_token, x_sent>>
    /\ UNCHANGED exceptExec

\* main, line 748: print_position_plan, which reads quotes
ExecPrintPlan ==
    /\ x_pc = "plan"
    /\ \E raised \in BOOLEAN :
        /\ x_pc' = IF raised THEN "finally" ELSE "confirm"
        /\ x_how' = IF raised THEN "exception" ELSE x_how
    /\ UNCHANGED <<x_token, x_params, x_sent>>
    /\ UNCHANGED x_resp
    /\ UNCHANGED exceptExec

\* main, lines 753-756: the prompt; any answer but y returns
ExecConfirm ==
    /\ x_pc = "confirm"
    /\ \E confirm \in {"y", "n"} :
        /\ x_pc' = IF confirm = "y" THEN "execute" ELSE "finally"
        /\ x_how' = IF confirm = "y" THEN x_how ELSE "declined"
    /\ UNCHANGED <<x_token, x_params, x_sent>>
    /\ UNCHANGED x_resp
    /\ UNCHANGED exceptExec

\* main, lines 761-772: the option branch, with execute_plan
ExecExecutePlan ==
    /\ x_pc = "execute"
    /\ x_params.instrument = "option"
    /\ \E qty_ok \in BOOLEAN, confirm \in {"y", "n"},
          r \in ExecOrderResponses, poll \in PollEndings :
        LET o == execute_plan_flow(x_params.has_plan, qty_ok, confirm, r, poll)
        IN  /\ x_how' = o.how
            /\ x_sent' = [x_sent EXCEPT !.orders = @ + o.orders]
            /\ x_resp' = IF o.orders = 1 THEN [kind |-> r.kind, code |-> r.code]
                         ELSE x_resp
    /\ x_pc' = "finally"
    /\ UNCHANGED <<x_token, x_params>>
    /\ UNCHANGED exceptExec

\* main, lines 773-786: the stock branch, with execute_stock_dca_order
ExecStockOrder ==
    /\ x_pc = "execute"
    /\ x_params.instrument = "stock"
    /\ \E confirm \in {"y", "n"}, r \in ExecOrderResponses, poll \in PollEndings :
        LET o == SubmitAndTrack(confirm, r, poll)
        IN  /\ x_how' = o.how
            /\ x_sent' = [x_sent EXCEPT !.orders = @ + o.orders]
            /\ x_resp' = IF o.orders = 1 THEN [kind |-> r.kind, code |-> r.code]
                         ELSE x_resp
    /\ x_pc' = "finally"
    /\ UNCHANGED <<x_token, x_params>>
    /\ UNCHANGED exceptExec

\* main, lines 785-786: any other instrument
ExecUnsupported ==
    /\ x_pc = "execute"
    /\ x_params.instrument = "other"
    /\ x_pc' = "finally"
    /\ x_how' = "unsupported"
    /\ UNCHANGED <<x_token, x_params, x_sent>>
    /\ UNCHANGED x_resp
    /\ UNCHANGED exceptExec

\* main, lines 788-791: the finally clause, with the API's logout
ExecFinally ==
    /\ x_pc = "finally"
    /\ \E r \in ApiLogoutResponses :
        IF x_token # NoToken
        THEN LET o == TastytradeAPI_logout("planner", x_token, NoToken, r)
             IN  /\ x_token' = o.token
                 /\ x_sent' = [x_sent EXCEPT
                                 !.calls = @ + 1,
                                 !.logouts = IF o.sent THEN @ + 1 ELSE @]
                 /\ x_resp' = r
        ELSE UNCHANGED <<x_token, x_sent, x_resp>>
    /\ x_pc' = "done"
    /\ UNCHANGED <<x_params, x_how>>
    /\ UNCHANGED exceptExec

NextExec ==
    \/ ExecLogin
    \/ ExecPromptMissing
    \/ ExecSpotQuote
    \/ ExecOptionChain
    \/ ExecPrintPlan
    \/ ExecConfirm
    \/ ExecExecutePlan
    \/ ExecStockOrder
    \/ ExecUnsupported
    \/ ExecFinally

SpecExec == InitExec /\ [][NextExec]_vars

\* Login succeeded in this run
ExecLoggedIn == x_pc \notin {"idle", "login"} /\ x_how # "login_failed"

\* C23: once login succeeded, logout is called exactly once before main
\* returns, however the try block was left, and not before the finally
\* clause; when login failed, no logout request is sent.
C23_LogoutOnceAfterLogin ==
    /\ (ExecLoggedIn /\ x_pc = "done") =>
          (x_sent.calls = 1 /\ x_sent.logouts = 1 /\ x_token = NoToken)
    /\ (ExecLoggedIn /\ x_pc # "done") => (x_sent.calls = 0 /\ x_token # NoToken)
    /\ x_how = "login_failed" => (x_sent.calls = 0 /\ x_sent.logouts = 0)

\* C23 witness: main returned after a login and a polling timeout
C23_Witness ==
    /\ x_pc = "done"
    /\ x_how = "poll_timeout"
    /\ x_sent.logins = 1
    /\ x_sent.calls = 1

\* Every way out of the try block that the claim names ends logged out
ExecExitsLoggedOut ==
    (x_pc = "done" /\ x_how \in {"declined", "submit_failed", "poll_timeout",
                                   "exception", "order_cancelled"})
        => (x_sent.calls = 1 /\ x_token = NoToken)

\* ------------------------------------------------------------------------
\* The DCA scripts: the interactive day-order loop and the GTC loop
\* ------------------------------------------------------------------------
\* while step < 10 (day script, line 139); range(params["steps"]) (GTC script)
DcaSteps == 10

\* shares_per_step: 45 in the day script (line 131); in the GTC script
\* int((45000.0 / 50.00) // 10 * 10) // 10 (lines 111-112)
SharesPerStep(fn) == IF fn = "day" THEN 45 ELSE 90

\* current_price = 20.0 (day script, line 133); params["entry"] = 50.00
StartPrice(fn) == IF fn = "day" THEN 2000 ELSE 5000

\* Prices typed after next, in cents
TypedPrices == {1950, 2100}

\* The response of the order POST.  body: "id" when data.order holds an id
\* (in the GTC script: data holds order-id), "noid" when it holds none,
\* "nodata" when the JSON has no data
DcaOrderResponses ==
    {[kind |-> "exc", code |-> 0, body |-> "none"]}
    \cup {[kind |-> "http", code |-> c, body |-> "none"] : c \in {400, 500}}
    \cup {[kind |-> "http", code |-> 201, body |-> b] : b \in {"id", "noid", "nodata"}}

\* day script, _submit_order lines 51-64
submit_order(r) ==
    IF r.kind = "exc" \/ r.code >= 400 \/ r.body = "nodata"
    THEN [raised |-> TRUE, order_id |-> "none"]
    ELSE [raised |-> FALSE,
          order_id |-> IF r.body = "id" THEN "id" ELSE "unknown"]

\* GTC script, lines 155-157: post, raise_for_status, data["order-id"]
gtc_submit(r) ==
    IF r.kind = "exc" \/ r.code >= 400 \/ r.body # "id"
    THEN [raised |-> TRUE, order_id |-> "none"]
    ELSE [raised |-> FALSE, order_id |-> "id"]

\* What the user types at the prompt of lines 160-163: next, next with a
\* price, next with a price float() rejects, close, quit, anything else
PromptInputs == {"next", "next_price", "next_unparsable", "close", "quit", "invalid"}

\* Faulty variant: the loop goes on after a failed step
AfterBuy_ContinuesOnFailure(fn, raised, n) ==
    IF n = DcaSteps THEN "finally"
    ELSE IF fn = "day" THEN "prompt" ELSE "buy"

\* Where the loop goes after a step: the except clause breaks (day script
\* lines 153-155, GTC script lines 159-163), step 10 ends the loop
AfterBuy(fn, raised, n) ==
    IF raised \/ n = DcaSteps THEN "finally"
    ELSE IF fn = "day" THEN "prompt" ELSE "buy"

\* Faulty variant: the script goes on buying after close
AfterPrompt_CloseGoesOn(nxt) ==
    IF nxt \in {"next", "next_price", "close"} THEN "buy"
    ELSE IF nxt = "invalid" THEN "prompt"
    ELSE "finally"

\* Where the script goes after the prompt (day script, lines 162-189)
AfterPrompt(nxt) ==
    IF nxt \in {"next", "next_price"} THEN "buy"
    ELSE IF nxt = "invalid" THEN "prompt"
    ELSE "finally"

InitDca ==
    /\ OccIdle
    /\ FillIdle
    /\ DebugIdle
    /\ MainIdle
    /\ OrderIdle
    /\ ApiIdle
    /\ QuoteIdle
    /\ ExecIdle
    /\ PlanIdle
    /\ BalIdle
    /\ c_fn \in {"day", "gtc"}
    /\ c_pc = "confirm"
    /\ step = 0
    /\ bought_qty = 0
    /\ current_price = StartPrice(c_fn)
    /\ c_sent = [buys |-> 0, accepted |-> 0, sells |-> 0, polls |-> 0, logouts |-> 0]
    /\ c_last = NoSubmission
    /\ c_hist = [failed_step |-> 0, polled |-> {}, closed |-> FALSE,
                 quit |-> FALSE, sent_at_end |-> 0]

\* day script lines 127-129, GTC script lines 126-129: the first prompt
DcaConfirm ==
    /\ c_pc = "confirm"
    /\ \E confirm \in {"y", "n"} :
        c_pc' = IF confirm = "y" THEN "buy" ELSE "finally"
    /\ UNCHANGED <<c_fn, step, bought_qty, current_price, c_sent, c_last, c_hist>>
    /\ UNCHANGED exceptDca

\* day script, lines 139-158: one step of the loop
DayBuyStep ==
    /\ c_fn = "day"
    /\ c_pc = "buy"
    /\ step < DcaSteps
    /\ step' = step + 1
    /\ \E r \in DcaOrderResponses :
        LET o == submit_order(r)
            payload == place_buy_order(SharesPerStep(c_fn), current_price)
        IN  /\ bought_qty' = IF o.raised THEN bought_qty
                             ELSE bought_qty + SharesPerStep(c_fn)
            /\ c_sent' = [c_sent EXCEPT
                            !.buys = @ + 1,
                            !.accepted = IF o.raised THEN @ ELSE @ + 1]
            /\ c_last' = [op |-> "buy", ok |-> ~o.raised, qty |-> payload.quantity,
                          order_id |-> o.order_id]
            /\ c_hist' = IF o.raised
                         THEN [c_hist EXCEPT !.failed_step = step + 1]
                         ELSE c_hist
            /\ c_pc' = AfterBuy(c_fn, o.raised, step + 1)
    /\ UNCHANGED <<c_fn, current_price>>
    /\ UNCHANGED exceptDca

\* day script, lines 160-189: the prompt for the next action
DayPrompt ==
    /\ c_fn = "day"
    /\ c_pc = "prompt"
    /\ \E nxt \in PromptInputs, p \in TypedPrices, r \in DcaOrderResponses :
        LET o == submit_order(r)
            payload == place_sell_order(bought_qty, current_price)
        IN  /\ c_pc' = AfterPrompt(nxt)
            /\ current_price' = IF nxt = "next_price" THEN p ELSE current_price
            /\ c_sent' = IF nxt = "close"
                         THEN [c_sent EXCEPT !.sells = @ + 1]
                         ELSE c_sent
            /\ c_last' =
                 IF nxt = "close"
                 THEN [op |-> "sell", ok |-> ~o.raised, qty |-> payload.quantity,
                       order_id |-> o.order_id]
                 ELSE IF nxt = "invalid"
                 THEN [c_last EXCEPT !.op = "invalid"]
                 ELSE c_last
            /\ c_hist' =
                 IF nxt = "close"
                 THEN [c_hist EXCEPT !.closed = TRUE,
                                     !.sent_at_end = c_sent.buys + c_sent.sells + 1]
                 ELSE IF nxt = "quit"
                 THEN [c_hist EXCEPT !.quit = TRUE,
                                     !.sent_at_end = c_sent.buys + c_sent.sells]
                 ELSE c_hist
    /\ UNCHANGED <<c_fn, step, bought_qty>>
    /\ UNCHANGED exceptDca

\* GTC script, lines 137-163: one step of the loop, with its status polling
GtcBuyStep ==
    /\ c_fn = "gtc"
    /\ c_pc = "buy"
    /\ step < DcaSteps
    /\ step' = step + 1
    /\ \E r \in DcaOrderResponses :
        LET o == gtc_submit(r)
        IN  /\ bought_qty' = IF o.raised THEN bought_qty
                             ELSE bought_qty + SharesPerStep(c_fn)
            /\ c_sent' = [c_sent EXCEPT
                            !.buys = @ + 1,
                            !.accepted = IF o.raised THEN @ ELSE @ + 1,
                            !.polls = IF o.raised THEN @ ELSE @ + 1]
            /\ c_last' = [op |-> "buy", ok |-> ~o.raised,
                          qty |-> SharesPerStep(c_fn), order_id |-> o.order_id]
            /\ c_hist' = IF o.raised
                         THEN [c_hist EXCEPT !.failed_step = step + 1]
                         ELSE [c_hist EXCEPT !.polled = @ \cup {step + 1}]
            /\ c_pc' = AfterBuy(c_fn, o.raised, step + 1)
    /\ UNCHANGED <<c_fn, current_price>>
    /\ UNCHANGED exceptDca

\* day script lines 197-205, GTC script lines 174-181: the finally clause
DcaFinally ==
    /\ c_pc = "finally"
    /\ c_pc' = "done"
    /\ c_sent' = [c_sent EXCEPT !.logouts = @ + 1]
    /\ UNCHANGED <<c_fn, step, bought_qty, current_price, c_last, c_hist>>
    /\ UNCHANGED exceptDca

NextDca ==
    \/ DcaConfirm
    \/ DayBuyStep
    \/ DayPrompt
    \/ GtcBuyStep
    \/ DcaFinally

SpecDca == InitDca /\ [][NextDca]_vars

\* C25: after the first failed submission the trade is over: the failed
\* step brought no order id, was not polled, and no later step was submitted.
C25_FailedStepEndsTrade ==
    c_hist.failed_step # 0 =>
        /\ step = c_hist.failed_step
        /\ c_sent.buys = c_hist.failed_step
        /\ c_sent.accepted = c_hist.failed_step - 1
        /\ c_hist.failed_step \notin c_hist.polled
        /\ c_sent.polls = (IF c_fn = "gtc" THEN c_hist.failed_step - 1 ELSE 0)
        /\ c_last = [op |-> "buy", ok |-> FALSE, qty |-> SharesPerStep(c_fn),
                     order_id |-> "none"]
        /\ c_pc \in {"finally", "done"}

\* C25 witness: the GTC script ended after its third step failed
C25_Witness ==
    /\ c_fn = "gtc"
    /\ c_hist.failed_step = 3
    /\ c_pc = "done"

\* C29: in the day script bought_qty is 45 times the buy orders that came
\* back, at most 450; at most 10 buy orders are submitted; close submits one
\* sell order for bought_qty and no buy after it; quit submits nothing
\* further; the logout request is sent on every way out.
C29_DayLoopInvariants ==
    c_fn = "day" =>
        /\ bought_qty = 45 * c_sent.accepted
        /\ bought_qty <= 450
        /\ c_sent.buys <= 10
        /\ c_sent.sells <= 1
        /\ c_sent.sells = 1 <=> c_hist.closed
        /\ c_hist.closed =>
              /\ c_last.op = "sell"
              /\ c_last.qty = bought_qty
              /\ c_sent.buys + c_sent.sells = c_hist.sent_at_end
        /\ c_hist.quit => c_sent.buys + c_sent.sells = c_hist.sent_at_end
        /\ c_sent.logouts = (IF c_pc = "done" THEN 1 ELSE 0)

\* C29 witness: three buys came back, then close sold the 135 shares, and
\* the script ended
C29_Witness ==
    /\ c_fn = "day"
    /\ c_hist.closed
    /\ bought_qty = 135
    /\ c_last.qty = 135
    /\ c_pc = "done"

\* ------------------------------------------------------------------------
\* The planner's strike selection: get_filtered_chain and the suggested strike
\* ------------------------------------------------------------------------
\* Strikes of a chain are 1..MaxChainStrike
MaxChainStrike == 8

Max(a, b) == IF a > b THEN a ELSE b

\* sorted(strikes.keys())
RECURSIVE SortedSeq(_)
SortedSeq(S) ==
    IF S = {} THEN <<>>
    ELSE LET m == CHOOSE x \in S : \A y \in S : x <= y
         IN  <<m>> \o SortedSeq(S \ {m})

\* all_strikes.index(v), counted from 1
IndexOf(seq, v) == CHOOSE i \in 1..Len(seq) : seq[i] = v

\* [s for s in seq if s in keep]
RECURSIVE FilterIn(_, _)
FilterIn(seq, keep) ==
    IF seq = <<>> THEN <<>>
    ELSE IF seq[1] \in keep THEN <<seq[1]>> \o FilterIn(Tail(seq), keep)
    ELSE FilterIn(Tail(seq), keep)

\* Faulty variant: the window reaches four strikes below
DefaultWindow_FourBelow(all_strikes, idx) ==
    SubSeq(all_strikes, Max(1, idx - 4), Min(Len(all_strikes), idx + 3))

\* get_filtered_chain, lines 73-75: all_strikes[start:end] around the strike
\* at place idx (counted from 1)
DefaultWindow(all_strikes, idx) ==
    SubSeq(all_strikes, Max(1, idx - 3), Min(Len(all_strikes), idx + 3))

\* What the user types at the strike prompt: nothing, a comma-separated list
\* of numbers, or text float() rejects
EnteredStrikes == {2, 5, 12}

StrikeInputs ==
    {[kind |-> "empty", vals |-> <<>>], [kind |-> "unparsable", vals |-> <<>>]}
    \cup {[kind |-> "list", vals |-> v] :
            v \in {<<>>} \cup {<<a>> : a \in EnteredStrikes}
                  \cup {<<a, b>> : a \in EnteredStrikes, b \in EnteredStrikes}}

\* get_filtered_chain, lines 42-131.  strikes is the key set of the dict built
\* from the chain of the target expiry; quotes_ok is FALSE when get_quotes
\* raises
get_filtered_chain(strikes, spot, user_input, quotes_ok) ==
    LET below == {k \in strikes : k < spot}
        NoResult == [called |-> TRUE, raised |-> TRUE, target_strikes |-> <<>>,
                     default_strikes |-> <<>>]
    IN  IF strikes = {} \/ below = {} THEN NoResult
        ELSE
        LET itm_strike == CHOOSE x \in below : \A y \in below : y <= x
            all_strikes == SortedSeq(strikes)
            default_strikes == DefaultWindow(all_strikes, IndexOf(all_strikes, itm_strike))
            entered == FilterIn(user_input.vals, strikes)
            target_strikes ==
                IF user_input.kind = "list" /\ entered # <<>>
                THEN entered
                ELSE default_strikes
        IN  IF ~quotes_ok THEN NoResult
            ELSE [called |-> TRUE, raised |-> FALSE,
                  target_strikes |-> target_strikes,
                  default_strikes |-> default_strikes]

\* Bids and asks, in cents
QuoteValues == {0, 40, 100}

\* strikes_dict[s]: put and call are FALSE where the chain has no such option
StrikeQuotes ==
    {[put |-> TRUE, call |-> TRUE, pb |-> a, pa |-> b, cb |-> c, ca |-> d] :
        a \in QuoteValues, b \in QuoteValues, c \in QuoteValues, d \in QuoteValues}
    \cup {[put |-> FALSE, call |-> TRUE, pb |-> 0, pa |-> 0, cb |-> c, ca |-> d] :
        c \in QuoteValues, d \in QuoteValues}
    \cup {[put |-> TRUE, call |-> FALSE, pb |-> a, pa |-> b, cb |-> 0, ca |-> 0] :
        a \in QuoteValues, b \in QuoteValues}

\* The strikes of the plans
PlanStrikes == {27, 28}

\* target_strikes as get_filtered_chain returns it
TargetStrikeLists ==
    {<<a>> : a \in PlanStrikes}
    \cup {p \in PlanStrikes \X PlanStrikes : p[1] # p[2]}

\* Twice put_mid - call_mid; each mid is 0 unless both its bid and its ask
\* are positive (planner lines 235-239, executor lines 518-522)
TwiceMid(q) ==
    (IF q.pb > 0 /\ q.pa > 0 THEN q.pb + q.pa ELSE 0)
    - (IF q.cb > 0 /\ q.ca > 0 THEN q.cb + q.ca ELSE 0)

\* nat = pb - ca (planner line 238)
NatPrice(q) == q.pb - q.ca

\* for s in target_strikes: the strikes that have a put and a call
RECURSIVE WithBothOptions(_, _)
WithBothOptions(seq, quotes) ==
    IF seq = <<>> THEN <<>>
    ELSE IF quotes[seq[1]].put /\ quotes[seq[1]].call
    THEN <<seq[1]>> \o WithBothOptions(Tail(seq), quotes)
    ELSE WithBothOptions(Tail(seq), quotes)

\* list.sort(key=nat), which is stable: k goes behind the strikes whose nat
\* is not larger
InsertByNat(k, sorted, quotes) ==
    LET behind == {i \in 1..Len(sorted) : NatPrice(quotes[sorted[i]]) <= NatPrice(quotes[k])}
        n == Cardinality(behind)
    IN  SubSeq(sorted, 1, n) \o <<k>> \o SubSeq(sorted, n + 1, Len(sorted))

RECURSIVE SortByNat(_, _)
SortByNat(seq, quotes) ==
    IF seq = <<>> THEN <<>>
    ELSE InsertByNat(seq[Len(seq)], SortByNat(SubSeq(seq, 1, Len(seq) - 1), quotes),
                     quotes)

\* The first strike of seq with a MID credit, 0 when there is none
RECURSIVE FirstMidCredit(_, _)
FirstMidCredit(seq, quotes) ==
    IF seq = <<>> THEN 0
    ELSE IF TwiceMid(quotes[seq[1]]) > 0 THEN seq[1]
    ELSE FirstMidCredit(Tail(seq), quotes)

\* print_position_plan, lines 220-271: the strike announced; 0 when it
\* returns before announcing one
print_position_plan(target_strikes, quotes) ==
    LET data == SortByNat(WithBothOptions(target_strikes, quotes), quotes)
        credit_strike == FirstMidCredit(data, quotes)
    IN  IF data = <<>> THEN 0
        ELSE IF credit_strike # 0 THEN credit_strike
        ELSE data[1]

\* execute_plan, lines 508-529: the strike the order is built for
execute_plan(target_strikes, quotes) ==
    LET suggested == FirstMidCredit(WithBothOptions(target_strikes, quotes), quotes)
    IN  IF suggested # 0 THEN suggested ELSE target_strikes[1]

InitPlan ==
    /\ OccIdle
    /\ FillIdle
    /\ DebugIdle
    /\ MainIdle
    /\ OrderIdle
    /\ ApiIdle
    /\ QuoteIdle
    /\ ExecIdle
    /\ DcaIdle
    /\ BalIdle
    /\ s_out = [called |-> FALSE]
    /\ \/ /\ s_fn = "get_filtered_chain"
          /\ s_in \in [kind : {"chain"}, strikes : SUBSET (1..MaxChainStrike),
                        spot : {1, 5, 10}, user_input : StrikeInputs,
                        quotes_ok : BOOLEAN]
       \/ /\ s_fn = "plan"
          /\ s_in \in [kind : {"plan"}, target_strikes : TargetStrikeLists,
                        quotes : [PlanStrikes -> StrikeQuotes]]

\* main, lines 741-743: get_filtered_chain
CallGetFilteredChain ==
    /\ s_fn = "get_filtered_chain"
    /\ ~s_out.called
    /\ s_out' = get_filtered_chain(s_in.strikes, s_in.spot, s_in.user_input,
                                   s_in.quotes_ok)
    /\ UNCHANGED <<s_fn, s_in>>
    /\ UNCHANGED exceptPlan

\* main, lines 748 and 765: print_position_plan, then execute_plan, with the
\* same target_strikes and strikes_dict
CallPlanThenExecute ==
    /\ s_fn = "plan"
    /\ ~s_out.called
    /\ s_out' = [called |-> TRUE,
                 announced |-> print_position_plan(s_in.target_strikes, s_in.quotes),
                 used |-> execute_plan(s_in.target_strikes, s_in.quotes)]
    /\ UNCHANGED <<s_fn, s_in>>
    /\ UNCHANGED exceptPlan

NextPlan ==
    \/ CallGetFilteredChain
    \/ CallPlanThenExecute

SpecPlan == InitPlan /\ [][NextPlan]_vars

\* get_filtered_chain has returned
ChainReturned == s_fn = "get_filtered_chain" /\ s_out.called /\ ~s_out.raised

\* The elements of a sequence
Elems(seq) == {seq[i] : i \in 1..Len(seq)}

\* C30: the returned target_strikes is not empty and holds strikes of the
\* chain only; the default is the run of at most 7 consecutive sorted strikes
\* with the highest strike below spot and up to 3 on either side; entered
\* strikes outside the chain are dropped; with no valid entered strike, or
\* unparsable input, the default is returned.
C30_TargetStrikesFromChain ==
    ChainReturned =>
        LET strikes == s_in.strikes
            itm == CHOOSE x \in strikes : x < s_in.spot
                       /\ \A y \in strikes : y < s_in.spot => y <= x
            win == Elems(s_out.default_strikes)
            lower == {k \in strikes : k < itm}
            upper == {k \in strikes : k > itm}
            valid == FilterIn(s_in.user_input.vals, strikes)
        IN  /\ s_out.target_strikes # <<>>
            /\ Elems(s_out.target_strikes) \subseteq strikes
            /\ s_out.default_strikes = SortedSeq(win)
            /\ Len(s_out.default_strikes) <= 7
            /\ itm \in win
            /\ win \subseteq strikes
            /\ \A k \in strikes :
                  (\E a \in win : a <= k) /\ (\E b \in win : k <= b) => k \in win
            /\ Cardinality(win \cap lower) = Min(3, Cardinality(lower))
            /\ Cardinality(win \cap upper) = Min(3, Cardinality(upper))
            /\ s_out.target_strikes =
                  (IF s_in.user_input.kind = "list" /\ valid # <<>>
                   THEN valid ELSE s_out.default_strikes)

\* C30 witness: a chain of 8 strikes, one entered strike in the chain and one
\* outside it
C30_Witness ==
    /\ ChainReturned
    /\ Cardinality(s_in.strikes) = 8
    /\ s_in.user_input.vals = <<12, 5>>
    /\ s_out.target_strikes = <<5>>
    /\ Len(s_out.default_strikes) = 7

\* The default window of an empty or unparsable answer
DefaultOnEmptyOrUnparsable ==
    (ChainReturned /\ s_in.user_input.kind # "list")
        => s_out.target_strikes = s_out.default_strikes

\* C26: the strike execute_plan uses is the strike print_position_plan
\* announced for the same target_strikes and quotes.
C26_ExecutedStrikeIsAnnounced ==
    (s_fn = "plan" /\ s_out.called /\ s_out.announced # 0)
        => s_out.used = s_out.announced

\* Two strikes with a MID credit, the second with the smaller NAT: the plan
\* announces the second, the order is built for the first
TwoCreditsOrderedByNat ==
    /\ s_fn = "plan"
    /\ s_out.called
    /\ s_in.target_strikes = <<27, 28>>
    /\ s_in.quotes[27] = [put |-> TRUE, call |-> TRUE, pb |-> 100, pa |-> 100,
                          cb |-> 40, ca |-> 40]
    /\ s_in.quotes[28] = [put |-> TRUE, call |-> TRUE, pb |-> 40, pa |-> 100,
                          cb |-> 0, ca |-> 100]
    /\ s_out.announced = 28
    /\ s_out.used = 27

\* With a single target strike that has a put and a call, both agree
SingleStrikeAgrees ==
    (s_fn = "plan" /\ s_out.called /\ Len(s_in.target_strikes) = 1
        /\ s_out.announced # 0) => s_out.used = s_out.announced

\* ------------------------------------------------------------------------
\* wait_for_balance_update, and the polling loops under a running process
\* ------------------------------------------------------------------------
\* timeout, in seconds
BalTimeout == 4

\* poll_interval=2 (line 356)
PollInterval == 2

\* abs(delta - expected_change) < 2.0 (line 371), in cents
BalanceTolerance == 200

\* expected_change, in cents
ExpectedChanges == {-6000, 6000}

\* The balances response; body is "malformed" when json() or float() raises
BalancePollResponses(old, expected) ==
    {[kind |-> "exc", code |-> 0, body |-> "none", cash |-> 0]}
    \cup {[kind |-> "http", code |-> 500, body |-> "none", cash |-> 0]}
    \cup {[kind |-> "http", code |-> 200, body |-> "malformed", cash |-> 0]}
    \cup {[kind |-> "http", code |-> 200, body |-> "ok", cash |-> c] :
            c \in {old, old + expected, old + expected + BalanceTolerance - 1,
                   old + expected + BalanceTolerance}}

\* Faulty variant: no sleep after an exception
BalanceIteration_NoSleepOnError(old, expected, r) ==
    IF r.kind = "exc" \/ r.body = "malformed"
    THEN [returned |-> FALSE, ret |-> NoBalance, sleep |-> 0]
    ELSE IF r.code # 200
    THEN [returned |-> FALSE, ret |-> NoBalance, sleep |-> PollInterval]
    ELSE IF Abs((r.cash - old) - expected) < BalanceTolerance
    THEN [returned |-> TRUE, ret |-> [kind |-> "float", val |-> r.cash], sleep |-> 0]
    ELSE [returned |-> FALSE, ret |-> NoBalance, sleep |-> PollInterval]

\* wait_for_balance_update, lines 361-376: one iteration of the loop
BalanceIteration(old, expected, r) ==
    IF r.kind = "exc" \/ r.body = "malformed"
    THEN [returned |-> FALSE, ret |-> NoBalance, sleep |-> PollInterval]
    ELSE IF r.code # 200
    THEN [returned |-> FALSE, ret |-> NoBalance, sleep |-> PollInterval]
    ELSE IF Abs((r.cash - old) - expected) < BalanceTolerance
    THEN [returned |-> TRUE, ret |-> [kind |-> "float", val |-> r.cash], sleep |-> 0]
    ELSE [returned |-> FALSE, ret |-> NoBalance, sleep |-> PollInterval]

InitBal ==
    /\ OccIdle
    /\ FillIdle
    /\ DebugIdle
    /\ MainIdle
    /\ OrderIdle
    /\ ApiIdle
    /\ QuoteIdle
    /\ ExecIdle
    /\ DcaIdle
    /\ PlanIdle
    /\ b_pc = "loop"
    /\ b_now = 0
    /\ b_in \in [old_balance : {100000}, expected_change : ExpectedChanges]
    /\ b_last = [kind |-> "none", code |-> 0, body |-> "none", cash |-> 0]
    /\ b_ret = NoBalance

\* lines 360-376: the deadline check passes and one poll is made
BalPoll ==
    /\ b_pc = "loop"
    /\ b_now < BalTimeout
    /\ \E lat \in 0..MaxLatency,
          r \in BalancePollResponses(b_in.old_balance, b_in.expected_change) :
        LET o == BalanceIteration(b_in.old_balance, b_in.expected_change, r)
        IN  /\ b_last' = r
            /\ b_pc' = IF o.returned THEN "done" ELSE "loop"
            /\ b_ret' = o.ret
            /\ b_now' = b_now + lat + o.sleep
    /\ UNCHANGED b_in
    /\ UNCHANGED exceptBal

\* lines 360, 378: the deadline check fails
BalTimeoutExit ==
    /\ b_pc = "loop"
    /\ b_now >= BalTimeout
    /\ b_pc' = "done"
    /\ b_ret' = NoBalance
    /\ UNCHANGED <<b_now, b_in, b_last>>
    /\ UNCHANGED exceptBal

NextBal ==
    \/ BalPoll
    \/ BalTimeoutExit

\* wait_for_order_fill, lines 302-350, without the history of the responses
PollUnrecorded == PollStep(FALSE)

\* debug_order_status, lines 36-72 / 450-488, without the history of the
\* responses and of the printed lines
DebugPollUnrecorded == DebugStep(FALSE)

InitLoops ==
    \/ InitFill
    \/ InitDebug
    \/ InitBal

NextLoops ==
    \/ PollUnrecorded
    \/ TimeoutExit
    \/ DebugPollUnrecorded
    \/ DebugTimeoutExit
    \/ GtcPoll
    \/ GtcExhausted
    \/ NextBal

\* The polling loops in a process that keeps running: a loop that can take
\* its next step takes it
SpecLoops == InitLoops /\ [][NextLoops]_vars /\ WF_vars(NextLoops)

\* The loop that runs has returned
LoopReturned == w_pc = "done" \/ d_pc = "done" \/ b_pc = "done"

\* The clock of the loop that runs
LoopClock == w_now + d_now + b_now

\* An iteration of one of the time-bound loops
LoopIteration == PollUnrecorded \/ DebugPollUnrecorded \/ BalPoll

\* The deadline of the loop that runs has passed
DeadlinePassed ==
    \/ w_pc = "loop" /\ w_now >= PollTimeout
    \/ d_pc = "loop" /\ d_fn \in {"def21", "def439"} /\ d_now >= DebugTimeout
    \/ b_pc = "loop" /\ b_now >= BalTimeout

\* A time-bound loop is at its deadline check and the check passes: the
\* step it takes next is an iteration
IterationBegins ==
    \/ w_pc = "loop" /\ w_now < PollTimeout
    \/ d_pc = "loop" /\ d_fn \in {"def21", "def439"} /\ d_now < DebugTimeout
    \/ b_pc = "loop" /\ b_now < BalTimeout

\* C24: each polling loop returns, whatever the broker answers; an iteration
\* either returns or lets a positive time pass; once the timeout has elapsed
\* no further poll is made.
C24_PollingLoopsTerminate ==
    /\ <>LoopReturned
    /\ [][IterationBegins => (LoopReturned' \/ LoopClock' > LoopClock)]_vars
    /\ [](DeadlinePassed => ~ENABLED LoopIteration)

\* C24 witness: wait_for_balance_update has returned None after the timeout,
\* its latest request having raised
C24_Witness ==
    /\ b_pc = "done"
    /\ b_now >= BalTimeout
    /\ b_last.kind = "exc"
    /\ b_ret = NoBalance

\* ------------------------------------------------------------------------
\* The repository: a run of any one of its parts
\* ------------------------------------------------------------------------
Init ==
    \/ InitOcc
    \/ InitFill
    \/ InitDebug
    \/ InitMain
    \/ InitOrder
    \/ InitApi
    \/ InitQuote
    \/ InitExec
    \/ InitDca
    \/ InitPlan
    \/ InitBal

Next ==
    \/ NextOcc
    \/ NextFill
    \/ NextDebugTwice
    \/ NextMain
    \/ NextOrder
    \/ NextApi
    \/ NextQuote
    \/ NextExec
    \/ NextDca
    \/ NextPlan
    \/ NextBal

Spec == Init /\ [][Next]_vars

====
